---- MODULE Spec2Model ----
(***************************************************************************)
(* A model of the stock backend: the multi-round AI analysis session       *)
(*   backend/app/services/ai/analyzer.py   StockAnalyzer.analyze_stock     *)
(*   backend/app/services/ai/processor.py  process_actor_analysis,         *)
(*                                         generate_conclusion             *)
(* and the crawler tasks with their progress hub                           *)
(*   backend/app/routers/crawler.py        the task registry, endpoints    *)
(*   backend/app/utils/progress.py         ProgressManager                 *)
(*   backend/app/crawler/stock_crawler.py  StockCrawler.run                *)
(*                                                                         *)
(* Five specifications cover the analysis session:                         *)
(*   Spec        one whole analyze_stock session (roster, rounds, actors,  *)
(*               conclusion), the provider answering each request freely   *)
(*               within a budget of non-nominal answers;                   *)
(*   SpecRounds  the same session over more rounds, with one kind of       *)
(*               non-nominal answer per behaviour;                         *)
(*   SpecCall    one logical call (one actor call or one conclusion call)  *)
(*               with a budget large enough to walk the whole retry and    *)
(*               fallback chain;                                           *)
(*   SpecRate    the rate limiter at the head of process_actor_analysis    *)
(*               under a clock, with concurrently running callers;         *)
(*   SpecSeq     the same rate limiter passed by one caller at a time.     *)
(* Six cover the crawler tasks:                                            *)
(*   SpecHub     one task with WebSocket and SSE subscribers coming and    *)
(*               going while it runs;                                      *)
(*   SpecSse     one task and its SSE clients, with the read loop of       *)
(*               sse_event_generator;                                      *)
(*   SpecTasks   the task registry under several start_crawler calls;      *)
(*   SpecStatus  one task and get_crawler_status called while it runs;     *)
(*   SpecShared  two start_crawler calls of one second, with a WebSocket   *)
(*               and an SSE client attached;                               *)
(*   SpecRegistry  the SSE registry of ProgressManager under any sequence  *)
(*               of add_sse_client and remove_sse_client calls.            *)
(*                                                                         *)
(* Wall-clock time is abstract in Spec and SpecCall: a timeout of          *)
(* asyncio.wait_for / asyncio.timeout may fire at every point where the    *)
(* code awaits (requests.post blocks the event loop, so a timer can only   *)
(* cancel the task at an await).                                           *)
(***************************************************************************)
EXTENDS Integers, Sequences, FiniteSets, TLC

(***************************************************************************)
(* Program constants (processor.py).                                       *)
(***************************************************************************)
REQUEST_LIMIT == 3

REQUEST_INTERVAL == 60 \div REQUEST_LIMIT

MAX_RETRIES == 3

RETRY_DELAY == 2

FALLBACK_MODELS ==
  << "deepseek/deepseek-chat:free",
     "google/gemini-exp-1206:free",
     "google/gemini-2.0-flash-lite-preview-02-05:free" >>

\* The model generate_conclusion uses when it is given none.
DEFAULT_CONCLUSION_MODEL == "deepseek/deepseek-chat:free"

\* The reserved actor tag of a roster entry that only names the conclusion model.
SENTINEL == "conclusion_model"

\* The keys of ROLE_PROMPTS (role_prompts.py): the actor tags that have a template.
ROLE_PROMPTS == {"macro", "tech", "risk"}

(***************************************************************************)
(* Bounds of the model.                                                    *)
(***************************************************************************)
\* max_rounds ranges over 0..MaxRounds.
MaxRounds == 2

\* Non-nominal provider answers and timeouts per session in Spec.
MaxFaults == 2

\* Non-nominal provider answers and timeouts of the one call of SpecCall.
MaxCallFaults == 13

\* SpecRounds: max_rounds ranges over 0..MaxLongRounds.
MaxLongRounds == 3

\* SpecRounds: non-nominal provider answers and timeouts per session of more
\* than one round; with one active actor, whose first call must succeed for the
\* session to go on, enough for every pattern over MaxLongRounds rounds.
MaxLongFaults == 2

\* SpecRounds: the same for a session of at most one round, enough for an actor
\* call to reach its first fallback model.
MaxChainFaults == 4

\* SpecRate: the callers that run concurrently on the event loop are 1..NumCallers.
NumCallers == 2

\* SpecRate: the clock runs from 0 to MaxTime seconds.
MaxTime == 42

\* SpecRate: what follows a grant (the blocking request) lasts 0..MaxDuration seconds.
MaxDuration == 1

\* SpecTasks: the clock runs over the seconds 0..MaxSecond.
MaxSecond == 1

\* SpecTasks: start_crawler is called at most MaxStarts times.
MaxStarts == 2

\* SpecHub: get_stock_list returns 0..MaxStocks stocks.
MaxStocks == 1


\* SpecHub: the subscribers of a behaviour, WebSockets and SSE clients together.
MaxSubscribers == 2


\* SpecSse: the heartbeats of a behaviour.
MaxHeartbeats == 1

\* SpecStatus: the calls of get_crawler_status of a behaviour.
MaxQueries == 3

\* SpecRegistry: the remove_sse_client calls of a behaviour that name a queue
\* not registered for the task.
MaxStrays == 2

(***************************************************************************)
(* Inputs.                                                                 *)
(***************************************************************************)
\* A model that is not one of FALLBACK_MODELS.
OTHER_MODEL == "meta-llama/llama-3-8b-instruct:free"

Models == {OTHER_MODEL} \cup {FALLBACK_MODELS[k] : k \in 1..Len(FALLBACK_MODELS)}

Entry(a, m) == [actor |-> a, model |-> m]

\* The rosters a session is started with ("ghost" has no prompt template).
Rosters ==
  { << >>,
    << Entry(SENTINEL, OTHER_MODEL) >>,
    << Entry(SENTINEL, OTHER_MODEL), Entry(SENTINEL, FALLBACK_MODELS[1]) >>,
    << Entry("macro", OTHER_MODEL) >>,
    << Entry("macro", FALLBACK_MODELS[1]), Entry(SENTINEL, OTHER_MODEL) >>,
    << Entry("macro", OTHER_MODEL), Entry("tech", FALLBACK_MODELS[2]) >>,
    << Entry(SENTINEL, ""), Entry("ghost", OTHER_MODEL), Entry("risk", FALLBACK_MODELS[3]),
       Entry(SENTINEL, FALLBACK_MODELS[2]) >>,
    << Entry("tech", "") >>,
    << Entry("tech", ""), Entry("macro", OTHER_MODEL) >> }

(***************************************************************************)
(* The provider's answer to one request.                                   *)
(*   kind  "ok"         status 200, choices, non-empty content             *)
(*         "ok_empty"   status 200, choices, content ""                    *)
(*         "error"      no usable choices: the error object is read        *)
(*         "parse"      response.json() raises ValueError                  *)
(*         "malformed"  the body decodes but indexing it raises            *)
(*         "network"    requests.post raises                               *)
(* For kind "error": msg_auth / msg_provider say whether the lower-cased   *)
(* message contains "auth" / "provider"; type and code are the fields.     *)
(***************************************************************************)
Resp(k, ma, mp, t, c) ==
  [kind |-> k, msg_auth |-> ma, msg_provider |-> mp, type |-> t, code |-> c]

OkResp == Resp("ok", FALSE, FALSE, "unknown", "")

ErrorResponses ==
  { Resp("error", ma, mp, t, c) :
      ma \in BOOLEAN, mp \in BOOLEAN,
      t \in {"authentication_error", "unknown"},
      c \in {"auth_required", "400", ""} }

Responses ==
  {OkResp} \cup ErrorResponses
    \cup { Resp(k, FALSE, FALSE, "unknown", "") :
             k \in {"ok_empty", "parse", "malformed", "network"} }

\* The error objects that pass the provider test and none of the authentication tests.
ProviderResponses ==
  { r \in ErrorResponses :
      /\ ~r.msg_auth /\ r.type = "unknown" /\ r.code # "auth_required"
      /\ r.msg_provider \/ r.code = "400" }

\* The answers drawn in a whole session: every kind, and of the error objects
\* one per class, plus one that passes both the authentication and the provider test.
SessionResponses ==
  {OkResp}
    \cup { Resp(k, FALSE, FALSE, "unknown", "") :
             k \in {"ok_empty", "parse", "malformed", "network"} }
    \cup { Resp("error", TRUE, FALSE, "unknown", ""),
           Resp("error", TRUE, FALSE, "unknown", "400"),
           Resp("error", FALSE, TRUE, "unknown", ""),
           Resp("error", FALSE, FALSE, "unknown", "") }

(***************************************************************************)
(* Events (the JSON messages of the stream), reduced to type and detail.   *)
(***************************************************************************)
Ev(t, d) == [type |-> t, detail |-> d]

\* The text a model returns, tagged with the call that produced it.
Content(r, k, m, e) == [round |-> r, idx |-> k, model |-> m, empty |-> e]

NoContent == Content(0, 0, "", TRUE)

\* The dict process_actor_analysis returns: "has" says whether it carries the
\* keys actor and content (the success return) or only "messages".
Result(h, a, c, ms) == [has |-> h, actor |-> a, content |-> c, messages |-> ms]

NoResult == Result(FALSE, "", NoContent, << >>)

\* A piece of the transcript string: a labelled opinion or the "\n\n" separator.
Opinion(r, a, c) == [kind |-> "opinion", round |-> r, actor |-> a, content |-> c]

Sep == [kind |-> "sep", round |-> 0, actor |-> "", content |-> NoContent]

\* A call made by analyze_stock, as the history records it: of
\* process_actor_analysis (kind "actor": round, index in active_actors, the
\* actor_data passed) or of generate_conclusion (kind "conclusion": the results
\* and the model passed).  outcome is "pending", "returned" or "timed_out"; has
\* and content tell what a returned actor call returned.
Call(kd, rnd, k, a, m, tr, inp) ==
  [kind |-> kd, round |-> rnd, idx |-> k, actor |-> a, model |-> m,
   transcript |-> tr, input |-> inp, outcome |-> "pending", has |-> FALSE,
   content |-> NoContent]

(***************************************************************************)
(* State.                                                                  *)
(***************************************************************************)
VARIABLES
  actors,                \* analyze_stock: the roster
  max_rounds,            \* analyze_stock: max_rounds
  pc,                    \* position of the session
  round_num,             \* analyze_stock: round_num (0 before the loop)
  i,                     \* analyze_stock: index in active_actors, from 1
  all_round_results,     \* analyze_stock
  current_round_results, \* analyze_stock
  conversation_history,  \* analyze_stock: the transcript, as a sequence of pieces
  events,                \* the messages the session has yielded to its caller
  actor_data,            \* the call's actor_data (actor, model, first_round_opinions)
  is_last,               \* the call's is_last
  is_conversation,       \* the call's is_conversation
  reduced_logging,       \* the call's reduced_logging
  retry_count,           \* the current invocation's retry_count
  fallback_model_index,  \* the current invocation's fallback_model_index
  conclusion_model,      \* generate_conclusion: conclusion_model of the invocation
  result,                \* what process_actor_analysis returned
  lrt_set,               \* processor.last_request_time is not None
  requests,              \* history: the external requests issued, in order
  calls,                 \* history: the calls analyze_stock made, in order
  acquired,              \* history: how often processor.last_request_time was written
  faults,                \* non-nominal answers and timeouts so far
  budget,                \* the bound on faults of this behaviour
  answers,               \* the answers the provider may give in this behaviour
  now,                   \* SpecRate: the clock, in seconds
  last_request_time,     \* SpecRate: processor.last_request_time (NoTime: None)
  cpc,                   \* SpecRate: position of each caller
  wake,                  \* SpecRate: when each sleeping caller wakes
  grants,                \* SpecRate: history of the times written to last_request_time
  crawler_tasks,         \* crawler.py: the task registry, task id -> entry
  ws_connections,        \* ProgressManager: task id -> the socket registered
  sse_connections,       \* ProgressManager: task id -> the list of queues
  spiders,               \* the StockCrawler of each start_crawler call, in order
  sockets,               \* each WebSocket: its handler's position, task, client
  clients,               \* each SSE client: its generator's position, task
  queues,                \* the asyncio.Queue of each SSE client
  ws_received,           \* history: what was sent on each WebSocket
  sse_yielded,           \* history: what each SSE generator yielded
  published,             \* history: the number of calls of progress_callback
  writes,                \* history: how often crawler_tasks was written
  replies,               \* history: the replies of get_crawler_status
  strays                 \* history: the remove_sse_client calls that found nothing to remove

sessionVars ==
  << actors, max_rounds, pc, round_num, i, all_round_results, current_round_results,
     conversation_history, events, actor_data, is_last, is_conversation,
     reduced_logging, retry_count, fallback_model_index, conclusion_model, result,
     lrt_set, requests, calls, acquired, faults, budget, answers >>

rateVars == << now, last_request_time, cpc, wake, grants >>

hubVars ==
  << crawler_tasks, ws_connections, sse_connections, spiders, sockets, clients,
     queues, ws_received, sse_yielded, published, writes, replies, strays >>

vars == << sessionVars, rateVars, hubVars >>

(***************************************************************************)
(* Pure parts of processor.py.                                             *)
(***************************************************************************)
\* A faulty variant of Classify, the provider test made first: the properties of
\* authentication failures below must not survive it.
Classify_ProviderFirst(resp) ==
  IF resp.msg_provider \/ resp.code = "400"
  THEN "provider"
  ELSE IF resp.msg_auth \/ resp.type = "authentication_error" \/ resp.code = "auth_required"
       THEN "auth"
       ELSE "other"

\* The two tests on an error object, in the order the code makes them.
Classify(resp) ==
  IF resp.msg_auth \/ resp.type = "authentication_error" \/ resp.code = "auth_required"
  THEN "auth"
  ELSE IF resp.msg_provider \/ resp.code = "400"
       THEN "provider"
       ELSE "other"

\* A faulty variant of RetryDelay: a constant delay.
RetryDelay_Constant(next_retry) == RETRY_DELAY

\* retry_delay = RETRY_DELAY * next_retry
RetryDelay(next_retry) == RETRY_DELAY * next_retry

\* FALLBACK_MODELS[k] for a Python index k.
FallbackModel(k) == FALLBACK_MODELS[k + 1]

\* What an invocation does with a provider error: retry the same model, fall back
\* to another one, or give up.  The recursive call of a retry does not pass
\* fallback_model_index, which is then the default -1 of the signature.
Step(nx, m, rc, fi, d) ==
  [next |-> nx, model |-> m, retry_count |-> rc, fallback_model_index |-> fi, delay |-> d]

\* A faulty variant of ActorProviderStep: the fallback takes the next entry of
\* FALLBACK_MODELS also when it is the model just tried.
ActorProviderStep_NoSkip(model, rc, fi) ==
  IF rc < MAX_RETRIES
  THEN Step("retry", model, rc + 1, -1, RetryDelay(rc + 1))
  ELSE IF fi < Len(FALLBACK_MODELS) - 1
       THEN Step("fallback", FallbackModel(fi + 1), 0, fi + 1, 0)
       ELSE Step("exhausted", model, rc, fi, 0)

ActorProviderStep(model, rc, fi) ==
  IF rc < MAX_RETRIES
  THEN Step("retry", model, rc + 1, -1, RetryDelay(rc + 1))
  ELSE IF fi < Len(FALLBACK_MODELS) - 1
       THEN LET first == fi + 1
                next_fallback_index ==
                  IF model = FallbackModel(first) THEN first + 1 ELSE first
            IN IF next_fallback_index < Len(FALLBACK_MODELS)
               THEN Step("fallback", FallbackModel(next_fallback_index), 0,
                         next_fallback_index, 0)
               ELSE Step("exhausted", model, rc, fi, 0)
       ELSE Step("exhausted", model, rc, fi, 0)

ConclusionProviderStep(model, rc, fi) ==
  IF rc < MAX_RETRIES
  THEN Step("retry", model, rc + 1, -1, RetryDelay(rc + 1))
  ELSE IF fi < Len(FALLBACK_MODELS) - 1
       THEN LET first == fi + 1
                next_fallback_index ==
                  IF model = FallbackModel(first) THEN first + 1 ELSE first
            IN IF next_fallback_index < Len(FALLBACK_MODELS)
               THEN Step("fallback", FallbackModel(next_fallback_index), 0,
                         next_fallback_index, 0)
               ELSE Step("exhausted", model, rc, fi, 0)
       ELSE Step("exhausted", model, rc, fi, 0)

(***************************************************************************)
(* process_actor_analysis: one invocation, after the rate limiter.         *)
(***************************************************************************)
\* What the invocation does: whether it issues the request, what it does next
\* ("return", or the recursive call of a "retry" or a "fallback"), the dict it
\* returns, and whether it awaits after the request (the retry sleep, or the
\* 0.5 s sleep of the finally clause when not is_last).  Before a recursive
\* call, result.messages is the invocation's own list as it stands then: the
\* invocation returns the dict of the recursive call, not this list.
Outcome(rq, nx, res, st, sl) ==
  [requested |-> rq, next |-> nx, result |-> res, step |-> st, sleeps_after |-> sl]

ActorInvoke(ad, last, reduced, rc, fi, rnd, k, resp) ==
  LET actor == ad.actor
      model == ad.model
      stay == Step("return", model, rc, fi, 0)
      head == << Ev("progress", actor) >>
                \o (IF reduced THEN << >>
                    ELSE << Ev("info", "prompt_ready"), Ev("info", "api_request_start") >>)
                \o << Ev("api_request", actor) >>
      done == head \o << Ev("info", "api_request_complete") >>
      Fail(ms) == Outcome(TRUE, "return", Result(FALSE, "", NoContent, ms), stay, ~last)
      Good(e) ==
        Outcome(TRUE, "return",
                Result(TRUE, actor, Content(rnd, k, model, e),
                       done \o << Ev("analysis", actor) >>),
                stay, ~last)
  IN IF actor = "" \/ model = ""
     THEN Outcome(FALSE, "return",
                  Result(FALSE, "", NoContent, << Ev("warning", "unspecified") >>),
                  stay, FALSE)
     ELSE IF actor \notin ROLE_PROMPTS
     THEN Outcome(FALSE, "return",
                  Result(FALSE, "", NoContent, << Ev("warning", "no_prompt") >>),
                  stay, FALSE)
     ELSE CASE resp.kind = "network" -> Fail(head \o << Ev("error", "exception") >>)
            [] resp.kind = "parse" -> Fail(done \o << Ev("error", "parse") >>)
            [] resp.kind = "malformed" -> Fail(done \o << Ev("error", "exception") >>)
            [] resp.kind = "ok" -> Good(FALSE)
            [] resp.kind = "ok_empty" -> Good(TRUE)
            [] resp.kind = "error" ->
                 LET cls == Classify(resp)
                     st == ActorProviderStep(model, rc, fi)
                 IN IF cls = "auth"
                    THEN Fail(done)
                    ELSE IF cls = "other"
                    THEN Fail(done \o << Ev("error", "api_error") >>)
                    ELSE IF st.next = "exhausted"
                    THEN Fail(done \o << Ev("error", "exhausted") >>)
                    ELSE Outcome(TRUE, st.next,
                                 Result(FALSE, "", NoContent,
                                        done \o << Ev(st.next, actor) >>),
                                 st, st.next = "retry")

\* An external request, as the history records it.
\* acq is the number of writes of last_request_time that preceded it; messages
\* is what the invocation that issued it appended to its list (actor call) or
\* yields (conclusion call).
Req(kd, rnd, k, m, rc, fi, resp, nx, d, aq, ms) ==
  [kind |-> kd, round |-> rnd, idx |-> k, model |-> m, retry_count |-> rc,
   fallback_model_index |-> fi, resp |-> resp, next |-> nx, delay |-> d,
   acq |-> aq, messages |-> ms]

\* One invocation of process_actor_analysis under asyncio.wait_for(..., 200):
\* the rate limiter (which may sleep once last_request_time is set), the request,
\* the handling of the answer.  tmo says where the outer timeout cancels it:
\* "before" the request (in the limiter's sleep) or "after" it.
ActorAttempt ==
  /\ pc = "call"
  /\ \E resp \in answers, tmo \in {"none", "before", "after"} :
       LET o == ActorInvoke(actor_data, is_last, reduced_logging, retry_count,
                            fallback_model_index, round_num, i, resp)
           issued == o.requested /\ tmo # "before"
           nominal == tmo = "none" /\ resp = OkResp
       IN /\ nominal \/ faults < budget
          /\ issued \/ resp = OkResp
          /\ tmo = "before" => lrt_set
          /\ tmo = "after" => o.requested /\ o.sleeps_after
          /\ faults' = IF nominal THEN faults ELSE faults + 1
          /\ lrt_set' = TRUE
          /\ acquired' = IF tmo = "before" THEN acquired ELSE acquired + 1
          /\ requests' =
               IF issued
               THEN Append(requests,
                           Req("actor", round_num, i, actor_data.model, retry_count,
                               fallback_model_index, resp, o.next, o.step.delay,
                               acquired + 1, o.result.messages))
               ELSE requests
          /\ IF tmo # "none"
             THEN /\ pc' = "timed_out"
                  /\ UNCHANGED << actor_data, retry_count, fallback_model_index, result >>
             ELSE IF o.next = "return"
             THEN /\ pc' = "returned"
                  /\ result' = o.result
                  /\ UNCHANGED << actor_data, retry_count, fallback_model_index >>
             ELSE /\ pc' = "call"
                  /\ actor_data' = [actor_data EXCEPT !.model = o.step.model]
                  /\ retry_count' = o.step.retry_count
                  /\ fallback_model_index' = o.step.fallback_model_index
                  /\ UNCHANGED result
  /\ UNCHANGED << actors, max_rounds, round_num, i, all_round_results,
                  current_round_results, conversation_history, events, is_last,
                  is_conversation, reduced_logging, conclusion_model, calls, budget,
                  answers >>
  /\ UNCHANGED rateVars /\ UNCHANGED hubVars

(***************************************************************************)
(* generate_conclusion: one invocation, and the loop of analyze_stock that *)
(* consumes it under asyncio.timeout(360).                                 *)
(***************************************************************************)
\* The messages the invocation yields itself, in order, and what it does next:
\* "return" (it ends with its own 'complete' message) or the recursive call of a
\* "retry" or "fallback", after which it returns without yielding anything more.
ConclusionInvoke(cm, rc, fi, resp) ==
  LET model == IF cm = "" THEN DEFAULT_CONCLUSION_MODEL ELSE cm
      start == << Ev("info", "conclusion_start") >>
      summary == << Ev("complete", "summary") >>
      End(e) == [msgs |-> start \o << e >> \o summary,
                 step |-> Step("return", model, rc, fi, 0)]
  IN CASE resp.kind = "network" -> End(Ev("error", "exception"))
       [] resp.kind = "parse" -> End(Ev("error", "parse"))
       [] resp.kind = "malformed" -> End(Ev("error", "exception"))
       [] resp.kind = "ok" -> End(Ev("conclusion", "content"))
       [] resp.kind = "ok_empty" -> End(Ev("conclusion", "empty"))
       [] resp.kind = "error" ->
            LET cls == Classify(resp)
                st == ConclusionProviderStep(model, rc, fi)
            IN IF cls = "auth"
               THEN End(Ev("error", "auth"))
               ELSE IF cls = "other"
               THEN End(Ev("error", "api_error"))
               ELSE IF st.next = "exhausted"
               THEN End(Ev("error", "exhausted"))
               ELSE [msgs |-> start \o << Ev(st.next, "conclusion") >>, step |-> st]

\* One invocation of generate_conclusion, its messages passed on by analyze_stock
\* (each followed by a 0.1 s sleep).  cut = 0: no timeout; cut = k > 0: the 360 s
\* timeout fires after the k-th message of this invocation was passed on (the
\* request is issued between the first and the second).
ConclusionAttempt ==
  /\ pc = "conclusion_call"
  /\ \E resp \in answers, cut \in 0..3 :
       LET o == ConclusionInvoke(conclusion_model, retry_count, fallback_model_index, resp)
           issued == cut # 1
           nominal == cut = 0 /\ resp = OkResp
           passed == IF cut = 0 THEN o.msgs ELSE SubSeq(o.msgs, 1, cut)
       IN /\ cut <= Len(o.msgs)
          /\ nominal \/ faults < budget
          /\ issued \/ resp = OkResp
          /\ faults' = IF nominal THEN faults ELSE faults + 1
          /\ requests' =
               IF issued
               THEN Append(requests,
                           Req("conclusion", 0, 0,
                               IF conclusion_model = ""
                               THEN DEFAULT_CONCLUSION_MODEL ELSE conclusion_model,
                               retry_count,
                               fallback_model_index, resp, o.step.next, o.step.delay,
                               acquired, o.msgs))
               ELSE requests
          /\ IF cut # 0
             THEN /\ events' = events \o passed
                                 \o << Ev("error", "conclusion_timeout"),
                                       Ev("complete", "after_timeout") >>
                  /\ pc' = "done"
                  /\ UNCHANGED << conclusion_model, retry_count, fallback_model_index >>
             ELSE IF o.step.next = "return"
             THEN /\ events' = events \o passed \o << Ev("complete", "done") >>
                  /\ pc' = "done"
                  /\ UNCHANGED << conclusion_model, retry_count, fallback_model_index >>
             ELSE /\ events' = events \o passed
                  /\ pc' = "conclusion_call"
                  /\ conclusion_model' = o.step.model
                  /\ retry_count' = o.step.retry_count
                  /\ fallback_model_index' = o.step.fallback_model_index
  /\ UNCHANGED << actors, max_rounds, round_num, i, all_round_results,
                  current_round_results, conversation_history, actor_data, is_last,
                  is_conversation, reduced_logging, result, lrt_set, calls, acquired,
                  budget, answers >>
  /\ UNCHANGED rateVars /\ UNCHANGED hubVars

(***************************************************************************)
(* StockAnalyzer.analyze_stock.                                            *)
(***************************************************************************)
\* validate_params: what it yields.
validate_params(roster) ==
  IF Len(roster) < 1
  THEN << Ev("error", "no_actors") >>
  ELSE << Ev("info", "start") >>

\* A faulty variant of IsActive: every roster entry is run as an actor.
IsActive_Any(e) == TRUE

\* Line 44-45: the test of the comprehension that gives active_actors.
IsActive(e) == e.actor # SENTINEL

\* active_actors
ActiveActors(roster) == SelectSeq(roster, IsActive)

\* A faulty variant of JoinOpinions: the opinions are joined last result first.
RECURSIVE JoinOpinions_Reversed(_, _)
JoinOpinions_Reversed(rnd, rs) ==
  IF rs = << >> THEN << >>
  ELSE IF Len(rs) = 1 THEN << Opinion(rnd, rs[1].actor, rs[1].content) >>
  ELSE JoinOpinions_Reversed(rnd, Tail(rs))
         \o << Sep, Opinion(rnd, rs[1].actor, rs[1].content) >>

\* "\n\n".join of the labelled opinions of a round's results.
RECURSIVE JoinOpinions(_, _)
JoinOpinions(rnd, rs) ==
  IF rs = << >> THEN << >>
  ELSE IF Len(rs) = 1 THEN << Opinion(rnd, rs[1].actor, rs[1].content) >>
  ELSE << Opinion(rnd, rs[1].actor, rs[1].content), Sep >> \o JoinOpinions(rnd, Tail(rs))

sessionFrame ==
  /\ UNCHANGED << actors, max_rounds, budget, answers, faults, requests, lrt_set,
                  acquired >>
  /\ UNCHANGED rateVars /\ UNCHANGED hubVars

callFrame ==
  UNCHANGED << actor_data, is_last, is_conversation, reduced_logging, retry_count,
               fallback_model_index, conclusion_model, result >>

\* Lines 36-53: the messages of validate_params are passed on, then the session
\* goes on to the loop whatever they were.
Validate ==
  /\ pc = "start"
  /\ events' = events \o validate_params(actors)
  /\ all_round_results' = << >>
  /\ current_round_results' = << >>
  /\ conversation_history' = << >>
  /\ pc' = "loop"
  /\ UNCHANGED << round_num, i, calls >>
  /\ callFrame
  /\ sessionFrame

\* A loop that would also run round max_rounds + 1 (faulty variant).
MoreRounds_Inclusive(rnd, rounds) == rnd <= rounds

\* for round_num in range(1, max_rounds + 1): another round follows round rnd
\* (0 before the first) exactly while rnd < max_rounds.
MoreRounds(rnd, rounds) == rnd < rounds

\* for round_num in range(1, max_rounds + 1): the head of one iteration.
RoundStart ==
  /\ pc = "loop"
  /\ MoreRounds(round_num, max_rounds)
  /\ round_num' = round_num + 1
  /\ events' = events \o << Ev("info", "round_start") >>
  /\ current_round_results' = << >>
  /\ i' = 1
  /\ pc' = "actors"
  /\ UNCHANGED << all_round_results, conversation_history, calls >>
  /\ callFrame
  /\ sessionFrame

\* for i, actor_data in enumerate(active_actors): the call of one actor is set up.
ActorStart ==
  /\ pc = "actors"
  /\ i <= Len(ActiveActors(actors))
  /\ LET e == ActiveActors(actors)[i]
     IN actor_data' =
          [actor |-> e.actor, model |-> e.model,
           first_round_opinions |->
             IF round_num > 1 /\ conversation_history # << >>
             THEN conversation_history ELSE << >>]
  /\ is_last' = (i = Len(ActiveActors(actors)))
  /\ is_conversation' = (round_num > 1)
  /\ reduced_logging' = TRUE
  /\ retry_count' = 0
  /\ fallback_model_index' = -1
  /\ calls' = Append(calls, Call("actor", round_num, i, actor_data'.actor,
                                  actor_data'.model, actor_data'.first_round_opinions,
                                  << >>))
  /\ pc' = "call"
  /\ UNCHANGED << round_num, i, all_round_results, current_round_results,
                  conversation_history, events, conclusion_model, result >>
  /\ sessionFrame

\* Lines 89-105: the call returned.
ActorReturn ==
  /\ pc = "returned"
  /\ current_round_results' =
       IF result.has /\ ~result.content.empty
       THEN Append(current_round_results, result)
       ELSE current_round_results
  /\ events' = events \o result.messages \o << Ev("info", "actor_completed") >>
  /\ calls' = [calls EXCEPT ![Len(calls)] =
                 [@ EXCEPT !.outcome = "returned", !.has = result.has,
                           !.content = result.content]]
  /\ i' = i + 1
  /\ pc' = "actors"
  /\ UNCHANGED << round_num, all_round_results, conversation_history >>
  /\ callFrame
  /\ sessionFrame

\* A faulty variant of ActorTimeout: the timeout of a call ends the session.
ActorTimeout_Abort ==
  /\ pc = "timed_out"
  /\ events' = events \o << Ev("error", "timeout") >>
  /\ calls' = [calls EXCEPT ![Len(calls)] = [@ EXCEPT !.outcome = "timed_out"]]
  /\ pc' = "done"
  /\ UNCHANGED << round_num, i, all_round_results, current_round_results,
                  conversation_history >>
  /\ callFrame
  /\ sessionFrame

\* Lines 107-113: asyncio.TimeoutError of wait_for.
ActorTimeout ==
  /\ pc = "timed_out"
  /\ events' = events \o << Ev("error", "timeout") >>
  /\ calls' = [calls EXCEPT ![Len(calls)] = [@ EXCEPT !.outcome = "timed_out"]]
  /\ i' = i + 1
  /\ pc' = "actors"
  /\ UNCHANGED << round_num, all_round_results, current_round_results,
                  conversation_history >>
  /\ callFrame
  /\ sessionFrame

\* A faulty variant of RoundVerdict: an empty first round does not end the session.
RoundVerdict_NoReturn(current, all, rnd) ==
  IF current = << >> /\ all # << >> THEN "warn_and_continue" ELSE "continue"

\* Lines 119-130: what the end of a round decides from the round's results and
\* the results of all rounds so far (the round's included).
RoundVerdict(current, all, rnd) ==
  IF current = << >> /\ all # << >> THEN "warn_and_continue"
  ELSE IF current = << >> /\ rnd = 1 THEN "warn_and_return"
  ELSE "continue"

\* A faulty variant of Extend: the round's results replace the earlier ones.
Extend_Replace(all, current) == current

\* Line 116: all_round_results.extend(current_round_results).
Extend(all, current) == all \o current

\* A faulty variant of NextHistory: every round sets the transcript anew.
NextHistory_Replace(rnd, history, new_opinions) == new_opinions

\* Lines 139-142: the transcript after round rnd.
NextHistory(rnd, history, new_opinions) ==
  IF rnd = 1 THEN new_opinions ELSE history \o << Sep >> \o new_opinions

\* A faulty variant of RoundTransition: the event follows the final round too.
RoundTransition_Always(rnd, rounds) == << Ev("info", "round_transition") >>

\* Lines 145-150: the 'round_transition' event after a round that is not the
\* last one.
RoundTransition(rnd, rounds) ==
  IF rnd < rounds THEN << Ev("info", "round_transition") >> ELSE << >>

\* Lines 115-153: the end of one round.
RoundEnd ==
  /\ pc = "actors"
  /\ i > Len(ActiveActors(actors))
  /\ LET all == Extend(all_round_results, current_round_results)
         new_opinions == JoinOpinions(round_num, current_round_results)
         history == NextHistory(round_num, conversation_history, new_opinions)
         transition == RoundTransition(round_num, max_rounds)
     IN /\ all_round_results' = all
        /\ IF RoundVerdict(current_round_results, all, round_num) = "warn_and_continue"
           THEN /\ events' = events \o << Ev("warning", "round_no_result") >> \o transition
                /\ conversation_history' = history
                /\ pc' = "loop"
           ELSE IF RoundVerdict(current_round_results, all, round_num) = "warn_and_return"
           THEN /\ events' = events \o << Ev("warning", "first_round_no_result") >>
                /\ conversation_history' = conversation_history
                /\ pc' = "done"
           ELSE /\ events' = events \o transition
                /\ conversation_history' = history
                /\ pc' = "loop"
  /\ UNCHANGED << round_num, i, current_round_results, calls >>
  /\ callFrame
  /\ sessionFrame

\* The first roster entry tagged conclusion_model gives the model; failing that
\* (none, or an empty model), the first active actor's.
RECURSIVE FirstSentinelModel(_)
FirstSentinelModel(roster) ==
  IF roster = << >> THEN ""
  ELSE IF roster[1].actor = SENTINEL THEN roster[1].model
  ELSE FirstSentinelModel(Tail(roster))

\* A faulty variant of ResolveConclusionModel: the first active actor's model
\* comes before the sentinel entry's.
ResolveConclusionModel_ActorFirst(roster) ==
  IF ActiveActors(roster) # << >> THEN ActiveActors(roster)[1].model
  ELSE FirstSentinelModel(roster)

\* Lines 160-169: conclusion_model as analyze_stock resolves it.
ResolveConclusionModel(roster) ==
  LET named == FirstSentinelModel(roster)
      active == ActiveActors(roster)
  IN IF named = "" /\ active # << >> THEN active[1].model ELSE named

\* Lines 155-175, all rounds done, with results: the conclusion is started.
ConclusionStart ==
  /\ pc = "loop"
  /\ ~MoreRounds(round_num, max_rounds)
  /\ all_round_results # << >>
  /\ conclusion_model' = ResolveConclusionModel(actors)
  /\ events' = events \o << Ev("info", "conclusion_generation_start") >>
  /\ retry_count' = 0
  /\ fallback_model_index' = -1
  /\ calls' = Append(calls, Call("conclusion", 0, 0, "", conclusion_model', << >>,
                                  all_round_results))
  /\ pc' = "conclusion_call"
  /\ UNCHANGED << round_num, i, all_round_results, current_round_results,
                  conversation_history, actor_data, is_last, is_conversation,
                  reduced_logging, result >>
  /\ sessionFrame

\* Lines 155-159, all rounds done, without any result: the generator just ends.
NoConclusion ==
  /\ pc = "loop"
  /\ ~MoreRounds(round_num, max_rounds)
  /\ all_round_results = << >>
  /\ pc' = "done"
  /\ UNCHANGED << round_num, i, all_round_results, current_round_results,
                  conversation_history, events, calls >>
  /\ callFrame
  /\ sessionFrame

(***************************************************************************)
(* Spec: one session.                                                      *)
(***************************************************************************)
NoTime == -1

NoActorData == [actor |-> "", model |-> "", first_round_opinions |-> << >>]

hubIdle ==
  /\ crawler_tasks = << >>
  /\ ws_connections = << >>
  /\ sse_connections = << >>
  /\ spiders = << >>
  /\ sockets = << >>
  /\ clients = << >>
  /\ queues = << >>
  /\ ws_received = << >>
  /\ sse_yielded = << >>
  /\ published = 0
  /\ writes = 0
  /\ replies = << >>
  /\ strays = 0

rateIdle ==
  /\ now = 0
  /\ last_request_time = NoTime
  /\ cpc = << >>
  /\ wake = << >>
  /\ grants = << >>

Init ==
  /\ hubIdle
  /\ actors \in Rosters
  /\ max_rounds \in 0..MaxRounds
  /\ pc = "start"
  /\ round_num = 0
  /\ i = 0
  /\ all_round_results = << >>
  /\ current_round_results = << >>
  /\ conversation_history = << >>
  /\ events = << >>
  /\ actor_data = NoActorData
  /\ is_last = FALSE
  /\ is_conversation = FALSE
  /\ reduced_logging = TRUE
  /\ retry_count = 0
  /\ fallback_model_index = -1
  /\ conclusion_model = ""
  /\ result = NoResult
  /\ lrt_set \in BOOLEAN
  /\ requests = << >>
  /\ calls = << >>
  /\ acquired = 0
  /\ faults = 0
  /\ budget = MaxFaults
  /\ answers = SessionResponses
  /\ rateIdle

Next ==
  \/ Validate
  \/ RoundStart
  \/ ActorStart
  \/ ActorAttempt
  \/ ActorReturn
  \/ ActorTimeout
  \/ RoundEnd
  \/ ConclusionStart
  \/ NoConclusion
  \/ ConclusionAttempt

Spec == Init /\ [][Next]_vars

(***************************************************************************)
(* SpecRounds: one session over more rounds.  The provider gives, besides  *)
(* the nominal answer, one kind of non-nominal answer per behaviour: an    *)
(* empty content or a transient provider error (a call also fails by its   *)
(* timeout).                                                               *)
(***************************************************************************)
RoundFaults ==
  { Resp("ok_empty", FALSE, FALSE, "unknown", ""),
    Resp("error", FALSE, TRUE, "unknown", "") }

InitRounds ==
  /\ hubIdle
  /\ actors \in Rosters
  /\ max_rounds \in 0..MaxLongRounds
  /\ pc = "start"
  /\ round_num = 0
  /\ i = 0
  /\ all_round_results = << >>
  /\ current_round_results = << >>
  /\ conversation_history = << >>
  /\ events = << >>
  /\ actor_data = NoActorData
  /\ is_last = FALSE
  /\ is_conversation = FALSE
  /\ reduced_logging = TRUE
  /\ retry_count = 0
  /\ fallback_model_index = -1
  /\ conclusion_model = ""
  /\ result = NoResult
  /\ lrt_set \in BOOLEAN
  /\ requests = << >>
  /\ calls = << >>
  /\ acquired = 0
  /\ faults = 0
  /\ budget = IF max_rounds <= 1 THEN MaxChainFaults ELSE MaxLongFaults
  /\ \E f \in RoundFaults : answers = {OkResp, f}
  /\ rateIdle

SpecRounds == InitRounds /\ [][Next]_vars

(***************************************************************************)
(* SpecCall: one logical call, taken alone.  The call starts as            *)
(* analyze_stock starts it (retry_count 0, fallback_model_index -1), with  *)
(* any actor tag and model, and the provider answers each request freely;  *)
(* of the error objects of ProviderResponses a behaviour uses one.         *)
(***************************************************************************)
CallActors == {"macro", "ghost", ""}

CallModels == Models \cup {""}

InitCall ==
  /\ hubIdle
  /\ max_rounds = 1
  /\ round_num = 1
  /\ i = 1
  /\ current_round_results = << >>
  /\ conversation_history = << >>
  /\ events = << >>
  /\ is_conversation = FALSE
  /\ retry_count = 0
  /\ fallback_model_index = -1
  /\ result = NoResult
  /\ lrt_set \in BOOLEAN
  /\ requests = << >>
  /\ acquired = 0
  /\ faults = 0
  /\ budget = MaxCallFaults
  /\ \E t \in ProviderResponses : answers = (Responses \ ProviderResponses) \cup {t}
  /\ rateIdle
  /\ \/ /\ pc = "call"
        /\ \E a \in CallActors, m \in CallModels :
             actor_data = [actor |-> a, model |-> m, first_round_opinions |-> << >>]
        /\ is_last \in BOOLEAN
        /\ reduced_logging \in BOOLEAN
        /\ actors = << Entry(actor_data.actor, actor_data.model) >>
                      \o (IF is_last THEN << >> ELSE << Entry("tech", OTHER_MODEL) >>)
        /\ all_round_results = << >>
        /\ conclusion_model = ""
        /\ calls = << Call("actor", 1, 1, actor_data.actor, actor_data.model,
                           << >>, << >>) >>
     \/ /\ pc = "conclusion_call"
        /\ conclusion_model \in CallModels
        /\ actor_data = NoActorData
        /\ is_last = TRUE
        /\ reduced_logging = TRUE
        /\ actors = << Entry("macro", OTHER_MODEL) >>
        /\ all_round_results =
             << Result(TRUE, "macro", Content(1, 1, OTHER_MODEL, FALSE), << >>) >>
        /\ calls = << Call("conclusion", 0, 0, "", conclusion_model, << >>,
                           all_round_results) >>

NextCall ==
  \/ ActorAttempt
  \/ ConclusionAttempt

SpecCall == InitCall /\ [][NextCall]_vars

(***************************************************************************)
(* SpecRate: the rate limiter of process_actor_analysis (lines 60-68)      *)
(* under a clock in seconds.  The callers are tasks of one event loop      *)
(* (sessions running concurrently): a task runs alone until it awaits, so  *)
(* from the test of last_request_time to the sleep, and from the wake-up   *)
(* through the write of last_request_time and the blocking request that    *)
(* follows it, each is one step.                                           *)
(***************************************************************************)
Callers == 1..NumCallers

sessionIdle ==
  /\ actors = << >>
  /\ max_rounds = 0
  /\ pc = "done"
  /\ round_num = 0
  /\ i = 0
  /\ all_round_results = << >>
  /\ current_round_results = << >>
  /\ conversation_history = << >>
  /\ events = << >>
  /\ actor_data = NoActorData
  /\ is_last = FALSE
  /\ is_conversation = FALSE
  /\ reduced_logging = TRUE
  /\ retry_count = 0
  /\ fallback_model_index = -1
  /\ conclusion_model = ""
  /\ result = NoResult
  /\ lrt_set = FALSE
  /\ requests = << >>
  /\ calls = << >>
  /\ acquired = 0
  /\ faults = 0
  /\ budget = 0
  /\ answers = {OkResp}

InitRate ==
  /\ sessionIdle
  /\ hubIdle
  /\ now = 0
  /\ last_request_time = NoTime
  /\ cpc = [c \in Callers |-> "idle"]
  /\ wake = [c \in Callers |-> 0]
  /\ grants = << >>

\* A faulty variant of Remaining: the time elapsed instead of the time left.
Remaining_Elapsed(last, t) == t - last

\* What remains of the interval at time t: REQUEST_INTERVAL - elapsed.
Remaining(last, t) == REQUEST_INTERVAL - (t - last)

\* last_request_time = datetime.now(), then the rest of the invocation up to its
\* next await, which blocks the loop for d seconds.
Grant(c, d) ==
  /\ last_request_time' = now
  /\ grants' = Append(grants, now)
  /\ now' = now + d
  /\ cpc' = [cpc EXCEPT ![c] = "idle"]

\* A caller enters process_actor_analysis: it sleeps for the rest of the interval,
\* or passes at once.
Enter(c) ==
  /\ cpc[c] = "idle"
  /\ IF last_request_time # NoTime /\ Remaining(last_request_time, now) > 0
     THEN /\ cpc' = [cpc EXCEPT ![c] = "sleeping"]
          /\ wake' = [wake EXCEPT ![c] = now + Remaining(last_request_time, now)]
          /\ UNCHANGED << now, last_request_time, grants >>
     ELSE /\ \E d \in 0..MaxDuration : now + d <= MaxTime /\ Grant(c, d)
          /\ UNCHANGED wake
  /\ UNCHANGED sessionVars /\ UNCHANGED hubVars

\* The sleep of a caller is over: it passes, whatever the others did meanwhile.
Wake(c) ==
  /\ cpc[c] = "sleeping"
  /\ wake[c] <= now
  /\ \E d \in 0..MaxDuration : now + d <= MaxTime /\ Grant(c, d)
  /\ UNCHANGED wake
  /\ UNCHANGED sessionVars /\ UNCHANGED hubVars

\* A second passes while no task is ready to run.
Tick ==
  /\ now < MaxTime
  /\ \A c \in Callers : cpc[c] = "sleeping" => wake[c] > now
  /\ now' = now + 1
  /\ UNCHANGED << last_request_time, cpc, wake, grants >>
  /\ UNCHANGED sessionVars /\ UNCHANGED hubVars

NextRate ==
  \/ \E c \in Callers : Enter(c)
  \/ \E c \in Callers : Wake(c)
  \/ Tick

SpecRate == InitRate /\ [][NextRate]_vars

(***************************************************************************)
(* SpecSeq: the rate limiter passed sequentially: caller 1 alone invokes   *)
(* process_actor_analysis again and again, no invocation overlapping       *)
(* another.                                                                *)
(***************************************************************************)
NextSeq ==
  \/ Enter(1)
  \/ Wake(1)
  \/ Tick

SpecSeq == InitRate /\ [][NextSeq]_vars

(***************************************************************************)
(* SpecHub: the crawler tasks and the progress hub.                        *)
(*   backend/app/routers/crawler.py        crawler_tasks, progress_callback,*)
(*                                         start_crawler, the WebSocket    *)
(*                                         and SSE endpoints               *)
(*   backend/app/utils/progress.py         ProgressManager                 *)
(*   backend/app/crawler/stock_crawler.py  StockCrawler.run                *)
(* Everything runs on one event loop: a step is what one coroutine does    *)
(* from one suspension (a network call, a sleep, websocket.accept or       *)
(* websocket.send_json) to the next.  queue.put on an unbounded            *)
(* asyncio.Queue never suspends.                                           *)
(***************************************************************************)
\* start_crawler names a task after the second it is called in.
TaskIds == 0..MaxSecond

\* A subscriber is a WebSocket or an SSE client.
Sockets == 1..MaxSubscribers

Clients == 1..MaxSubscribers

NoSocket == 0

\* A task id that no task has.
UnknownTask == MaxSecond + 1

\* The task ids a subscriber asks for: the id of the task of second 0, or an id
\* that no task has.
SubscriberTasks == {t \in TaskIds : t = 0} \cup {UnknownTask}

\* A dict, as a function on its keys: d[k] = v, and d.pop(k, None).
Put(d, k, v) == [x \in (DOMAIN d) \cup {k} |-> IF x = k THEN v ELSE d[x]]

Pop(d, k) == [x \in (DOMAIN d) \ {k} |-> d[x]]

\* int(current * 100 / total) if total > 0 else 0
Percentage(current, total) == IF total > 0 THEN (current * 100) \div total ELSE 0

\* The messages.  Every message has the same fields here; a field the message
\* does not carry is NoField (a number) or "" (the error text).
NoField == -1

ProgressMessage(current, total, status) ==
  [current |-> current, total |-> total, percentage |-> Percentage(current, total),
   status |-> status, error |-> ""]

CompleteMessage(total) ==
  [current |-> total, total |-> total, percentage |-> 100, status |-> "completed",
   error |-> ""]

ErrorMessage(error) ==
  [current |-> NoField, total |-> NoField, percentage |-> NoField,
   status |-> "failed", error |-> error]

\* ": heartbeat", a comment line of the event stream.
Heartbeat ==
  [current |-> NoField, total |-> NoField, percentage |-> NoField,
   status |-> "heartbeat", error |-> ""]

\* What a subscriber is handed: the message, and the number of the publish it
\* belongs to (history; 0: not part of a publish).
Item(m, n) == [msg |-> m, pub |-> n]

\* An entry of crawler_tasks (start_time is not modelled).
Task(status, current, total, progress, error) ==
  [status |-> status, current |-> current, total |-> total, progress |-> progress,
   error |-> error]

\* The spider of one start_crawler call and the position of its run().
Spider(task_id) ==
  [task_id |-> task_id, pc |-> "get_stock_list", total_stocks |-> 0,
   processed_stocks |-> 0, visited |-> 0, sending |-> FALSE, current |-> 0,
   total |-> 0, status_str |-> "", websocket |-> NoSocket, pub |-> 0, after |-> ""]

\* The subscribers by their own position: a WebSocket handler between its
\* connect_ws and its finally clause, an SSE generator between add_sse_client
\* and remove_sse_client.
WsSubscribers(t) ==
  {w \in Sockets : sockets[w].task_id = t /\ sockets[w].pc \in {"waiting", "monitor"}}

SseSubscribers(t) ==
  {c \in Clients : clients[c].task_id = t /\ clients[c].pc = "listen"}

\* websocket.send_json succeeds while the client is connected and the handler
\* of the socket has not returned.
Alive(w) == sockets[w].open /\ sockets[w].pc # "closed"

\* The subscribers so far, WebSockets and SSE clients.
Subscriptions ==
  Cardinality({w \in Sockets : sockets[w].pc # "none"})
    + Cardinality({c \in Clients : clients[c].pc # "none"})

hubFrame ==
  /\ UNCHANGED sessionVars
  /\ UNCHANGED << last_request_time, cpc, wake, grants >>

\* A faulty variant of ConnectWs: the socket is only registered when the task
\* has none yet.
ConnectWs_Keep(conns, t, w) == IF t \in DOMAIN conns THEN conns ELSE Put(conns, t, w)

\* connect_ws after websocket.accept(): self.ws_connections[task_id] = websocket.
ConnectWs(conns, t, w) == Put(conns, t, w)

\* A faulty variant of DisconnectWs: the socket stays registered.
DisconnectWs_Keep(conns, t) == conns

\* disconnect_ws: self.ws_connections.pop(task_id, None).
DisconnectWs(conns, t) == Pop(conns, t)

\* progress_callback, lines 30-33: the status of this update.
StatusStr(current, total) ==
  IF current >= total /\ total > 0 THEN "completed" ELSE "running"

\* progress_callback, lines 31-40: the registry after the update.
Updated(tasks, t, current, total) ==
  LET e == tasks[t]
      s == IF StatusStr(current, total) = "completed" THEN "completed" ELSE e.status
  IN [tasks EXCEPT ![t] = Task(s, current, total, Percentage(current, total), e.error)]

\* A faulty variant of SendSseProgress: only the first queue of the task is fed.
SendSseProgress_First(qs, conns, t, current, total, status, n) ==
  IF t \in DOMAIN conns /\ conns[t] # << >>
  THEN [qs EXCEPT ![conns[t][1]] = Append(@, Item(ProgressMessage(current, total, status), n))]
  ELSE qs

\* send_sse_progress: the queues after the message, and for status 'completed'
\* the extra complete message, were put into every queue of the task.
SendSseProgress(qs, conns, t, current, total, status, n) ==
  IF t \in DOMAIN conns /\ conns[t] # << >>
  THEN LET targets == {conns[t][k] : k \in DOMAIN conns[t]}
           m == << Item(ProgressMessage(current, total, status), n) >>
           cm == IF status = "completed"
                 THEN << Item(CompleteMessage(total), n) >> ELSE << >>
       IN [q \in DOMAIN qs |-> IF q \in targets THEN qs[q] \o m \o cm ELSE qs[q]]
  ELSE qs

\* What send_ws_progress sends on the socket.
WsProgress(current, total, status, n) ==
  << Item(ProgressMessage(current, total, status), n) >>
    \o (IF status = "completed" THEN << Item(CompleteMessage(total), n) >> ELSE << >>)

\* progress_callback(current, total) of spider d (sp: the spider as run() left
\* it), up to its first suspension: the registry is updated; with a socket
\* registered for the task the callback suspends in websocket.send_json, without
\* one it runs to its end.  after: where run() goes on.
ProgressCallback(d, sp, current, total, after) ==
  LET t == sp.task_id
      status_str == StatusStr(current, total)
      n == published + 1
  IN /\ crawler_tasks' = Updated(crawler_tasks, t, current, total)
     /\ writes' = writes + 1
     /\ published' = n
     /\ IF t \in DOMAIN ws_connections
        THEN /\ spiders' = [spiders EXCEPT ![d] =
                 [sp EXCEPT !.sending = TRUE, !.current = current, !.total = total,
                            !.status_str = status_str,
                            !.websocket = ws_connections[t], !.pub = n,
                            !.after = after]]
             /\ UNCHANGED queues
        ELSE /\ spiders' = [spiders EXCEPT ![d] =
                 [sp EXCEPT !.pc = after, !.current = current, !.total = total,
                            !.status_str = status_str, !.websocket = NoSocket,
                            !.pub = n, !.after = after]]
             /\ queues' = SendSseProgress(queues, sse_connections, t, current, total,
                                          status_str, n)

\* The send of send_ws_progress is over (the sends on one socket end in the order
\* they began): the messages were sent, or the send raised, the task's socket was unregistered and progress_callback caught the
\* exception; then send_sse_progress, and the callback returns.
SendWsProgress(d) ==
  /\ d \in DOMAIN spiders
  /\ spiders[d].sending
  /\ \A b \in DOMAIN spiders :
       (spiders[b].sending /\ spiders[b].websocket = spiders[d].websocket)
       => spiders[b].pub >= spiders[d].pub
  /\ LET sp == spiders[d]
         t == sp.task_id
         w == sp.websocket
     IN /\ IF Alive(w)
           THEN /\ ws_received' = [ws_received EXCEPT ![w] =
                      @ \o WsProgress(sp.current, sp.total, sp.status_str, sp.pub)]
                /\ UNCHANGED ws_connections
           ELSE /\ ws_connections' = DisconnectWs(ws_connections, t)
                /\ UNCHANGED ws_received
        /\ queues' = SendSseProgress(queues, sse_connections, t, sp.current, sp.total,
                                     sp.status_str, sp.pub)
        /\ spiders' = [spiders EXCEPT ![d] = [sp EXCEPT !.sending = FALSE, !.pc = sp.after]]
  /\ UNCHANGED << now, crawler_tasks, sse_connections, sockets, clients, sse_yielded,
                  published, writes, replies, strays >>
  /\ hubFrame

hubRest == << ws_connections, sse_connections, sockets, clients, ws_received,
              sse_yielded, replies, strays >>

\* start_crawler in second t (the clock does not run backwards): the task is named
\* after the second, its entry is (over)written and run() is scheduled.
StartCrawler(t) ==
  /\ Len(spiders) < MaxStarts
  /\ t >= now
  /\ now' = t
  /\ crawler_tasks' = Put(crawler_tasks, t, Task("running", 0, 0, 0, ""))
  /\ writes' = writes + 1
  /\ spiders' = Append(spiders, Spider(t))
  /\ UNCHANGED << queues, published >>
  /\ UNCHANGED hubRest
  /\ hubFrame

\* run(): get_stock_list returns n stocks (none when the request failed), then
\* update_progress(0, total_stocks).
GetStockList(d) ==
  /\ d \in DOMAIN spiders
  /\ spiders[d].pc = "get_stock_list"
  /\ ~spiders[d].sending
  /\ \E n \in 0..MaxStocks :
       ProgressCallback(d, [spiders[d] EXCEPT !.total_stocks = n, !.processed_stocks = 0],
                        0, n, IF n = 0 THEN "final" ELSE "stocks")
  /\ UNCHANGED now
  /\ UNCHANGED hubRest
  /\ hubFrame

\* run(): process_stock of the next stock.  It either saves the stock and
\* reports processed_stocks, or fails on the way; the failure is logged and
\* swallowed, nothing is reported.
ProcessStock(d) ==
  /\ d \in DOMAIN spiders
  /\ spiders[d].pc = "stocks"
  /\ ~spiders[d].sending
  /\ LET sp == spiders[d]
         after == IF sp.visited + 1 = sp.total_stocks THEN "final" ELSE "stocks"
     IN \/ ProgressCallback(d, [sp EXCEPT !.visited = @ + 1, !.processed_stocks = @ + 1],
                            sp.processed_stocks + 1, sp.total_stocks, after)
        \/ /\ spiders' = [spiders EXCEPT ![d] = [sp EXCEPT !.visited = @ + 1, !.pc = after]]
           /\ UNCHANGED << crawler_tasks, queues, published, writes >>
  /\ UNCHANGED now
  /\ UNCHANGED hubRest
  /\ hubFrame

\* run(): update_progress(total_stocks, total_stocks) after the loop.
FinalProgress(d) ==
  /\ d \in DOMAIN spiders
  /\ spiders[d].pc = "final"
  /\ ~spiders[d].sending
  /\ ProgressCallback(d, spiders[d], spiders[d].total_stocks, spiders[d].total_stocks,
                      "returned")
  /\ UNCHANGED now
  /\ UNCHANGED hubRest
  /\ hubFrame

\* run() raises: an exception escapes at one of its own statements between the
\* reports (lines 253-267), is logged and raised again.
Raise(d) ==
  /\ d \in DOMAIN spiders
  /\ spiders[d].pc \in {"stocks", "final"}
  /\ ~spiders[d].sending
  /\ spiders' = [spiders EXCEPT ![d].pc = "raised"]
  /\ UNCHANGED << now, crawler_tasks, queues, published, writes >>
  /\ UNCHANGED hubRest
  /\ hubFrame

\* A faulty variant of Done: a finished task is reported as running.
Done_Running(e, raised) == [e EXCEPT !.status = "running"]

\* on_task_done: the entry after the task ended.
Done(e, raised) ==
  IF raised THEN [e EXCEPT !.status = "failed", !.error = "error"]
  ELSE [e EXCEPT !.status = "completed"]

\* on_task_done, the done callback of the task of run().
OnTaskDone(d) ==
  /\ d \in DOMAIN spiders
  /\ spiders[d].pc \in {"returned", "raised"}
  /\ ~spiders[d].sending
  /\ crawler_tasks' = [crawler_tasks EXCEPT ![spiders[d].task_id] =
                         Done(@, spiders[d].pc = "raised")]
  /\ writes' = writes + 1
  /\ spiders' = [spiders EXCEPT ![d].pc = "done"]
  /\ UNCHANGED << now, queues, published >>
  /\ UNCHANGED hubRest
  /\ hubFrame

driverVars == << crawler_tasks, spiders, published, writes >>

\* A client opens a WebSocket for task t: websocket_endpoint accepts and
\* registers it and looks for the task.  When the task exists, the initial
\* message is sent at once and the monitoring loop is entered; otherwise the
\* handler waits.  (The sockets are taken in order.)
WsOpen(w, t) ==
  /\ sockets[w].pc = "none"
  /\ \A v \in Sockets : v < w => sockets[v].pc # "none"
  /\ Subscriptions < MaxSubscribers
  /\ ws_connections' = ConnectWs(ws_connections, t, w)
  /\ IF t \in DOMAIN crawler_tasks
     THEN /\ sockets' = [sockets EXCEPT ![w] = [pc |-> "monitor", task_id |-> t, open |-> TRUE]]
          /\ ws_received' = [ws_received EXCEPT ![w] =
                Append(@, Item(ProgressMessage(0, 0, "running"), 0))]
     ELSE /\ sockets' = [sockets EXCEPT ![w] = [pc |-> "waiting", task_id |-> t, open |-> TRUE]]
          /\ UNCHANGED ws_received
  /\ UNCHANGED << now, sse_connections, clients, queues, sse_yielded, replies, strays >>
  /\ UNCHANGED driverVars
  /\ hubFrame

\* The handler leaves through its finally clause.
WsLeave(w) ==
  /\ ws_connections' = DisconnectWs(ws_connections, sockets[w].task_id)
  /\ sockets' = [sockets EXCEPT ![w].pc = "closed"]

\* websocket_endpoint: the task did not appear within the ten checks.
WsNotFound(w) ==
  /\ sockets[w].pc = "waiting"
  /\ sockets[w].task_id \notin DOMAIN crawler_tasks
  /\ ws_received' = [ws_received EXCEPT ![w] =
       IF Alive(w) THEN Append(@, Item(ErrorMessage("Task not found"), 0)) ELSE @]
  /\ WsLeave(w)
  /\ UNCHANGED << now, sse_connections, clients, queues, sse_yielded, replies, strays >>
  /\ UNCHANGED driverVars
  /\ hubFrame

\* websocket_endpoint, one turn of the monitoring loop: the entry is read and
\* sent; a completed or failed task, or a failed send, ends the handler.  (The
\* history keeps the messages of the last turn; the snapshot of a running task
\* repeats the entry and is not kept.)
WsMonitor(w) ==
  /\ sockets[w].pc = "monitor"
  /\ LET e == crawler_tasks[sockets[w].task_id]
         m == Item(ProgressMessage(e.current, e.total, e.status), 0)
     IN IF ~Alive(w)
        THEN /\ WsLeave(w)
             /\ UNCHANGED ws_received
        ELSE IF e.status = "completed"
        THEN /\ ws_received' = [ws_received EXCEPT ![w] =
                   @ \o << m, Item(CompleteMessage(e.total), 0) >>]
             /\ WsLeave(w)
        ELSE /\ e.status = "failed"
             /\ ws_received' = [ws_received EXCEPT ![w] =
                   @ \o << m, Item(ErrorMessage(e.error), 0) >>]
             /\ WsLeave(w)
  /\ UNCHANGED << now, sse_connections, clients, queues, sse_yielded, replies, strays >>
  /\ UNCHANGED driverVars
  /\ hubFrame

\* The client of a socket goes away; the server notices at its next send.
WsClientClose(w) ==
  /\ sockets[w].pc \in {"waiting", "monitor"}
  /\ sockets[w].open
  /\ sockets' = [sockets EXCEPT ![w].open = FALSE]
  /\ UNCHANGED << now, ws_connections, sse_connections, clients, queues, ws_received,
                  sse_yielded, replies, strays >>
  /\ UNCHANGED driverVars
  /\ hubFrame

wsVars == << ws_connections, sockets, ws_received >>

\* add_sse_client: the task's list (created when missing) with the queue appended.
AddSseClient(conns, t, q) ==
  IF t \in DOMAIN conns THEN [conns EXCEPT ![t] = Append(@, q)] ELSE Put(conns, t, << q >>)

\* The list without the queue q.
Without(qs, q) == SelectSeq(qs, LAMBDA x : x # q)

\* A faulty variant of RemoveSseClient: the whole list of the task is dropped.
RemoveSseClient_All(conns, t, q) == Pop(conns, t)

\* remove_sse_client: the queue leaves the task's list; an empty list is deleted.
RemoveSseClient(conns, t, q) ==
  IF t \in DOMAIN conns /\ \E k \in DOMAIN conns[t] : conns[t][k] = q
  THEN IF Without(conns[t], q) = << >>
       THEN Pop(conns, t)
       ELSE [conns EXCEPT ![t] = Without(@, q)]
  ELSE conns

\* A client requests the event stream of task t.  When the task exists,
\* sse_endpoint answers with sse_event_generator, which registers its queue and
\* puts the initial message, read from the entry, into it; otherwise
\* sse_endpoint waits.  (The clients are taken in order.)
SseRequest(c, t) ==
  /\ clients[c].pc = "none"
  /\ \A b \in Clients : b < c => clients[b].pc # "none"
  /\ Subscriptions < MaxSubscribers
  /\ IF t \in DOMAIN crawler_tasks
     THEN LET e == crawler_tasks[t]
              initial_message ==
                [current |-> e.current, total |-> e.total, percentage |-> e.progress,
                 status |-> e.status, error |-> ""]
          IN /\ sse_connections' = AddSseClient(sse_connections, t, c)
             /\ queues' = [queues EXCEPT ![c] = << Item(initial_message, 0) >>]
             /\ clients' = [clients EXCEPT ![c] = [pc |-> "listen", task_id |-> t]]
     ELSE /\ clients' = [clients EXCEPT ![c] = [pc |-> "waiting", task_id |-> t]]
          /\ UNCHANGED << sse_connections, queues >>
  /\ UNCHANGED << now, sse_yielded, replies, strays >>
  /\ UNCHANGED wsVars
  /\ UNCHANGED driverVars
  /\ hubFrame

\* sse_endpoint: the task did not appear within the ten checks; the response is
\* the one error message.
SseNotFound(c) ==
  /\ clients[c].pc = "waiting"
  /\ clients[c].task_id \notin DOMAIN crawler_tasks
  /\ sse_yielded' = [sse_yielded EXCEPT ![c] = << Item(ErrorMessage("Task not found"), 0) >>]
  /\ clients' = [clients EXCEPT ![c].pc = "gone"]
  /\ UNCHANGED << now, sse_connections, queues, replies, strays >>
  /\ UNCHANGED wsVars
  /\ UNCHANGED driverVars
  /\ hubFrame

\* The read loop is followed for the first SSE client; the queues of the later
\* ones are registered and served, and not read within a behaviour.
Readers == {c \in Clients : \A b \in Clients : c <= b}

\* A faulty variant of AfterGet: the message got is lost with the one behind it.
AfterGet_Skip(q) == IF Len(q) > 1 THEN Tail(Tail(q)) ELSE Tail(q)

\* queue.get(): the queue without its head.
AfterGet(q) == Tail(q)

\* sse_event_generator: queue.get() returns within the second; the message is
\* yielded.
SseYield(c) ==
  /\ c \in Readers
  /\ clients[c].pc = "listen"
  /\ queues[c] # << >>
  /\ sse_yielded' = [sse_yielded EXCEPT ![c] = Append(@, Head(queues[c]))]
  /\ queues' = [queues EXCEPT ![c] = AfterGet(@)]
  /\ UNCHANGED << now, sse_connections, clients, replies, strays >>
  /\ UNCHANGED wsVars
  /\ UNCHANGED driverVars
  /\ hubFrame

Heartbeats(log) == Cardinality({k \in DOMAIN log : log[k].msg = Heartbeat})

\* The heartbeats yielded so far, to all clients together.
HeartbeatsYielded ==
  Cardinality({p \in UNION {{<< b, k >> : k \in DOMAIN sse_yielded[b]} : b \in Clients} :
                 sse_yielded[p[1]][p[2]].msg = Heartbeat})

\* sse_event_generator: the queue stayed empty for a second; wait_for raises
\* TimeoutError and a heartbeat is yielded.
SseHeartbeat(c) ==
  /\ c \in Readers
  /\ clients[c].pc = "listen"
  /\ queues[c] = << >>
  /\ HeartbeatsYielded < MaxHeartbeats
  /\ sse_yielded' = [sse_yielded EXCEPT ![c] = Append(@, Item(Heartbeat, 0))]
  /\ UNCHANGED << now, sse_connections, clients, queues, replies, strays >>
  /\ UNCHANGED wsVars
  /\ UNCHANGED driverVars
  /\ hubFrame

\* The client is gone: is_disconnected() is true at the head of the loop, the
\* generator leaves through its finally clause.
SseDisconnect(c) ==
  /\ clients[c].pc = "listen"
  /\ sse_connections' = RemoveSseClient(sse_connections, clients[c].task_id, c)
  /\ clients' = [clients EXCEPT ![c].pc = "gone"]
  /\ UNCHANGED << now, queues, sse_yielded, replies, strays >>
  /\ UNCHANGED wsVars
  /\ UNCHANGED driverVars
  /\ hubFrame

\* The hub with nothing started and nobody attached.
hubEmpty ==
  /\ sessionIdle
  /\ rateIdle
  /\ crawler_tasks = << >>
  /\ ws_connections = << >>
  /\ sse_connections = << >>
  /\ spiders = << >>
  /\ sockets = [w \in Sockets |-> [pc |-> "none", task_id |-> 0, open |-> FALSE]]
  /\ clients = [c \in Clients |-> [pc |-> "none", task_id |-> 0]]
  /\ queues = [c \in Clients |-> << >>]
  /\ ws_received = [w \in Sockets |-> << >>]
  /\ sse_yielded = [c \in Clients |-> << >>]
  /\ published = 0
  /\ writes = 0
  /\ replies = << >>
  /\ strays = 0

\* One task: start_crawler was called once, in second 0.
InitHub ==
  /\ sessionIdle
  /\ rateIdle
  /\ crawler_tasks = Put(<< >>, 0, Task("running", 0, 0, 0, ""))
  /\ ws_connections = << >>
  /\ sse_connections = << >>
  /\ spiders = << Spider(0) >>
  /\ sockets = [w \in Sockets |-> [pc |-> "none", task_id |-> 0, open |-> FALSE]]
  /\ clients = [c \in Clients |-> [pc |-> "none", task_id |-> 0]]
  /\ queues = [c \in Clients |-> << >>]
  /\ ws_received = [w \in Sockets |-> << >>]
  /\ sse_yielded = [c \in Clients |-> << >>]
  /\ published = 0
  /\ writes = 1
  /\ replies = << >>
  /\ strays = 0

Spiders == 1..MaxStarts

NextHub ==
  \/ \E d \in Spiders : GetStockList(d)
  \/ \E d \in Spiders : ProcessStock(d)
  \/ \E d \in Spiders : FinalProgress(d)
  \/ \E d \in Spiders : SendWsProgress(d)
  \/ \E d \in Spiders : Raise(d)
  \/ \E d \in Spiders : OnTaskDone(d)
  \/ \E w \in Sockets, t \in SubscriberTasks : WsOpen(w, t)
  \/ \E w \in Sockets : WsNotFound(w)
  \/ \E w \in Sockets : WsMonitor(w)
  \/ \E w \in Sockets : WsClientClose(w)
  \/ \E c \in Clients, t \in SubscriberTasks : SseRequest(c, t)
  \/ \E c \in Clients : SseNotFound(c)
  \/ \E c \in Clients : SseDisconnect(c)

SpecHub == InitHub /\ [][NextHub]_vars

(***************************************************************************)
(* SpecSse: one task and its SSE clients, each with the read loop of its   *)
(* sse_event_generator (no WebSocket is opened).                           *)
(***************************************************************************)
NextSse ==
  \/ \E d \in Spiders : GetStockList(d)
  \/ \E d \in Spiders : ProcessStock(d)
  \/ \E d \in Spiders : FinalProgress(d)
  \/ \E d \in Spiders : Raise(d)
  \/ \E d \in Spiders : OnTaskDone(d)
  \/ \E c \in Clients, t \in SubscriberTasks : SseRequest(c, t)
  \/ \E c \in Clients : SseNotFound(c)
  \/ \E c \in Clients : SseYield(c)
  \/ \E c \in Clients : SseHeartbeat(c)
  \/ \E c \in Clients : SseDisconnect(c)

SpecSse == InitHub /\ [][NextSse]_vars

(***************************************************************************)
(* SpecTasks: the task registry.  start_crawler is called up to MaxStarts  *)
(* times, in the same second or in later ones (nobody subscribes).         *)
(* SpecStatus: one task, and get_crawler_status called while it runs.      *)
(***************************************************************************)
\* The reply of get_crawler_status: 404, or the copy of the entry with the
\* message of its status.
NotFound == [code |-> 404, detail |-> "Task not found"]

TaskInfo(e) ==
  [code |-> 200, status |-> e.status, current |-> e.current, total |-> e.total,
   progress |-> e.progress, error |-> e.error,
   message |-> IF e.status = "failed" THEN << "failed", e.error >> ELSE << e.status >>]

StatusReply(tasks, t) == IF t \notin DOMAIN tasks THEN NotFound ELSE TaskInfo(tasks[t])

\* A faulty variant of AfterStatus: an unknown task gets an entry.
AfterStatus_Create(tasks, t) ==
  IF t \notin DOMAIN tasks THEN Put(tasks, t, Task("running", 0, 0, 0, "")) ELSE tasks

\* The registry after get_crawler_status: the handler writes to its copy only.
AfterStatus(tasks, t) == tasks

\* get_crawler_status(t).  The history keeps the reply, the number of writes of
\* the registry before it, and whether the call left the registry as it was.
GetCrawlerStatus(t) ==
  /\ Len(replies) < MaxQueries
  /\ crawler_tasks' = AfterStatus(crawler_tasks, t)
  /\ replies' = Append(replies,
       [task_id |-> t, reply |-> StatusReply(crawler_tasks, t), writes |-> writes,
        known |-> t \in DOMAIN crawler_tasks,
        unchanged |-> crawler_tasks' = crawler_tasks])
  /\ UNCHANGED << now, ws_connections, sse_connections, spiders, sockets, clients,
                  queues, ws_received, sse_yielded, published, writes, strays >>
  /\ hubFrame

NextTasks ==
  \/ \E t \in TaskIds : StartCrawler(t)
  \/ \E d \in Spiders : GetStockList(d)
  \/ \E d \in Spiders : ProcessStock(d)
  \/ \E d \in Spiders : FinalProgress(d)
  \/ \E d \in Spiders : Raise(d)
  \/ \E d \in Spiders : OnTaskDone(d)

SpecTasks == hubEmpty /\ [][NextTasks]_vars

NextStatus ==
  \/ \E d \in Spiders : GetStockList(d)
  \/ \E d \in Spiders : ProcessStock(d)
  \/ \E d \in Spiders : FinalProgress(d)
  \/ \E d \in Spiders : Raise(d)
  \/ \E d \in Spiders : OnTaskDone(d)
  \/ \E t \in SubscriberTasks : GetCrawlerStatus(t)

SpecStatus == InitHub /\ [][NextStatus]_vars

(***************************************************************************)
(* SpecShared: two start_crawler calls fell into second 0; a WebSocket and *)
(* an SSE client attached to the task before either run() took a step.     *)
(***************************************************************************)
InitShared ==
  /\ sessionIdle
  /\ rateIdle
  /\ crawler_tasks = Put(<< >>, 0, Task("running", 0, 0, 0, ""))
  /\ ws_connections = Put(<< >>, 0, 1)
  /\ sse_connections = Put(<< >>, 0, << 1 >>)
  /\ spiders = << Spider(0), Spider(0) >>
  /\ sockets = [w \in Sockets |->
                  IF w = 1 THEN [pc |-> "monitor", task_id |-> 0, open |-> TRUE]
                  ELSE [pc |-> "none", task_id |-> 0, open |-> FALSE]]
  /\ clients = [c \in Clients |->
                  IF c = 1 THEN [pc |-> "listen", task_id |-> 0]
                  ELSE [pc |-> "none", task_id |-> 0]]
  /\ queues = [c \in Clients |->
                 IF c = 1 THEN << Item(ProgressMessage(0, 0, "running"), 0) >> ELSE << >>]
  /\ ws_received = [w \in Sockets |->
                      IF w = 1 THEN << Item(ProgressMessage(0, 0, "running"), 0) >>
                      ELSE << >>]
  /\ sse_yielded = [c \in Clients |-> << >>]
  /\ published = 0
  /\ writes = 2
  /\ replies = << >>
  /\ strays = 0

NextShared ==
  \/ \E d \in Spiders : GetStockList(d)
  \/ \E d \in Spiders : ProcessStock(d)
  \/ \E d \in Spiders : FinalProgress(d)
  \/ \E d \in Spiders : SendWsProgress(d)
  \/ \E d \in Spiders : Raise(d)
  \/ \E d \in Spiders : OnTaskDone(d)
  \/ \E w \in Sockets : WsMonitor(w)
  \/ \E w \in Sockets : WsClientClose(w)

SpecShared == InitShared /\ [][NextShared]_vars

(***************************************************************************)
(* SpecRegistry: the SSE registry of ProgressManager alone, under any      *)
(* sequence of add_sse_client and remove_sse_client calls.  clients[c]     *)
(* keeps what the callers did with queue c: "none" before add_sse_client   *)
(* created it, "listen" with its task once added, "gone" once removed.     *)
(***************************************************************************)
\* The task ids the callers name.
RegistryTasks == TaskIds \cup {UnknownTask}

\* add_sse_client(t): a new queue c is created, registered and returned.
AddSseCall(c, t) ==
  /\ clients[c].pc = "none"
  /\ sse_connections' = AddSseClient(sse_connections, t, c)
  /\ clients' = [clients EXCEPT ![c] = [pc |-> "listen", task_id |-> t]]
  /\ UNCHANGED << now, queues, sse_yielded, replies, strays >>
  /\ UNCHANGED wsVars
  /\ UNCHANGED driverVars
  /\ hubFrame

\* remove_sse_client(t, c) with any task id and any queue: one that is
\* registered for t, or one that is not (never added, added for another task,
\* or removed before), which the history counts.
RemoveSseCall(c, t) ==
  LET registered == clients[c].pc = "listen" /\ clients[c].task_id = t
  IN /\ ~registered => strays < MaxStrays
     /\ sse_connections' = RemoveSseClient(sse_connections, t, c)
     /\ clients' = IF registered THEN [clients EXCEPT ![c].pc = "gone"] ELSE clients
     /\ strays' = IF registered THEN strays ELSE strays + 1
     /\ UNCHANGED << now, queues, sse_yielded, replies >>
     /\ UNCHANGED wsVars
     /\ UNCHANGED driverVars
     /\ hubFrame

NextRegistry ==
  \/ \E c \in Clients, t \in RegistryTasks : AddSseCall(c, t)
  \/ \E c \in Clients, t \in RegistryTasks : RemoveSseCall(c, t)

SpecRegistry == hubEmpty /\ [][NextRegistry]_vars

(***************************************************************************)
(* Properties.                                                             *)
(***************************************************************************)
CountType(es, t) == Cardinality({k \in DOMAIN es : es[k].type = t})

\* The events of es whose type is in ts, in order.
RECURSIVE TypesIn(_, _)
TypesIn(es, ts) ==
  IF es = << >> THEN << >>
  ELSE (IF es[1].type \in ts THEN << es[1].type >> ELSE << >>) \o TypesIn(Tail(es), ts)

\* The answer passes one of the three authentication tests of the claim.
AuthFields(resp) ==
  /\ resp.kind = "error"
  /\ resp.msg_auth \/ resp.type = "authentication_error" \/ resp.code = "auth_required"

\* The answer passes one of the two provider tests.
ProviderFields(resp) ==
  /\ resp.kind = "error"
  /\ resp.msg_provider \/ resp.code = "400"

SameCall(r, q) == r.kind = q.kind /\ r.round = q.round /\ r.idx = q.idx

\* C1 (Spec).  A session with at least one active actor ends with exactly one
\* 'complete' event, which is its last event.  Stated for the sessions that
\* collected a result (max_rounds >= 1, some actor succeeded), whatever the
\* other actors and the conclusion did; the sessions without any result end
\* with no 'complete' event at all (C10).
C1_ExactlyOneComplete ==
  ( /\ pc = "done"
    /\ Len(ActiveActors(actors)) >= 1
    /\ all_round_results # << >> )
  => /\ CountType(events, "complete") = 1
     /\ events[Len(events)].type = "complete"

\* C2 (SpecCall).  While the provider answers every request of a logical call
\* with a transient provider error, the call walks forward through its models
\* and ends: a model whose retries were used up is not attempted again.
C2_NoModelAttemptedAgain ==
  (\A k \in DOMAIN requests : requests[k].resp \in ProviderResponses)
  => \A j \in DOMAIN requests : \A k \in DOMAIN requests :
       (j < k /\ requests[j].model = requests[k].model)
       => \A l \in j..k : requests[l].model = requests[j].model

\* C3 (SpecRate).  Any two grants of the rate limiter are at least
\* REQUEST_INTERVAL apart, whatever the interleaving of the callers.
C3_GrantsSpaced ==
  \A a \in DOMAIN grants : \A b \in DOMAIN grants :
    a < b => grants[b] - grants[a] >= REQUEST_INTERVAL

\* C4 (SpecCall).  In an actor call, a transient provider error is retried on the
\* same model while retry_count < MAX_RETRIES, the retry after retry_count = n - 1
\* sleeping RETRY_DELAY * n; a fallback happens only after the three retries of
\* the current model, slept 2, 4 and 6 seconds in that order; and the model a
\* fallback selects starts with retry_count 0.
C4_RetriesBeforeFallback ==
  \A k \in DOMAIN requests :
    LET r == requests[k]
    IN r.kind = "actor" =>
         /\ r.retry_count \in 0..MAX_RETRIES
         /\ (r.resp \in ProviderResponses /\ r.retry_count < MAX_RETRIES)
              => r.next = "retry" /\ r.delay = RETRY_DELAY * (r.retry_count + 1)
         /\ r.retry_count > 0
              => /\ k > 1
                 /\ requests[k - 1].next = "retry"
                 /\ requests[k - 1].model = r.model
                 /\ requests[k - 1].retry_count = r.retry_count - 1
         /\ r.next = "fallback"
              => /\ r.retry_count = MAX_RETRIES
                 /\ k >= 4
                 /\ \A l \in (k - 3)..k : requests[l].model = r.model
                 /\ << requests[k - 3].delay, requests[k - 2].delay, requests[k - 1].delay >>
                      = << 2, 4, 6 >>
         /\ (k > 1 /\ requests[k - 1].next = "fallback")
              => r.retry_count = 0 /\ r.model # requests[k - 1].model

\* C4, reached: an actor call has fallen back twice, the second time after the
\* three retries of the first fallback model.
C4_Witness ==
  \E j \in DOMAIN requests : \E k \in DOMAIN requests :
    /\ j < k
    /\ requests[j].kind = "actor" /\ requests[j].next = "fallback"
    /\ requests[k].kind = "actor" /\ requests[k].next = "fallback"

\* C5 (SpecCall).  An answer that passes an authentication test ends the logical
\* call, of an actor or of the conclusion: the invocation returns, and no retry
\* and no fallback request follows, also when the answer passes a provider test.
C5_AuthNoRetryNoFallback ==
  \A k \in DOMAIN requests :
    AuthFields(requests[k].resp)
    => /\ k = Len(requests)
       /\ requests[k].next = "return"
       /\ pc \in {"returned", "timed_out", "done"}

\* C5, reached: a conclusion call, retried once, has ended on an answer that
\* passes an authentication test and a provider test.
C5_Witness ==
  /\ pc = "done"
  /\ Len(requests) = 2
  /\ requests[2].kind = "conclusion"
  /\ AuthFields(requests[2].resp)
  /\ ProviderFields(requests[2].resp)

\* C6 as claimed (Spec).  Once an actor call has received an authentication
\* failure, the session issues no further external request.
C6_AuthEndsSession ==
  \A k \in DOMAIN requests :
    (requests[k].kind = "actor" /\ AuthFields(requests[k].resp)) => k = Len(requests)

\* C6 as amended (Spec).  An authentication failure is terminal for the logical
\* call that receives it, not for the session: that call issues no further
\* request, and every later request belongs to another actor call or to the
\* conclusion.
C6_AuthEndsCallOnly ==
  \A k \in DOMAIN requests :
    (requests[k].kind = "actor" /\ AuthFields(requests[k].resp))
    => /\ requests[k].next = "return"
       /\ \A j \in DOMAIN requests : j > k => ~SameCall(requests[j], requests[k])

\* C6, reached: after the authentication failure of an actor call the session
\* has gone on to the conclusion request.
C6_Witness ==
  \E k \in DOMAIN requests : \E j \in DOMAIN requests :
    /\ k < j
    /\ requests[k].kind = "actor" /\ AuthFields(requests[k].resp)
    /\ requests[j].kind = "conclusion"

\* C7 (Spec).  With an empty roster the stream is one 'error' event and nothing
\* else.
C7_EmptyRosterSingleError ==
  (actors = << >> /\ pc = "done")
  => Len(events) = 1 /\ events[1].type = "error"

\* C8 (Spec).  With a roster of sentinel entries only, the session emits exactly
\* one 'error' event and ends without starting a round (max_rounds >= 1).
C8_SentinelOnlyFailsFast ==
  ( /\ actors # << >>
    /\ ActiveActors(actors) = << >>
    /\ max_rounds >= 1
    /\ pc = "done" )
  => /\ CountType(events, "error") = 1
     /\ \A k \in DOMAIN events : events[k].detail # "round_start"

\* C9 (Spec).  A successful run with one active actor and max_rounds = 1 (every
\* request answered with content, no timeout) yields one 'analysis', then one
\* 'conclusion', then one 'complete' event.
C9_SingleActorStream ==
  ( /\ pc = "done"
    /\ max_rounds = 1
    /\ Len(ActiveActors(actors)) = 1
    /\ faults = 0
    /\ all_round_results # << >> )
  => TypesIn(events, {"analysis", "conclusion", "complete"})
       = << "analysis", "conclusion", "complete" >>

\* Round 1 is over (its end was processed).
Round1Over ==
  \/ round_num > 1
  \/ round_num = 1 /\ pc \in {"loop", "conclusion_call", "done"}

\* No result of round 1 was collected.
Round1Empty ==
  \A k \in DOMAIN all_round_results : all_round_results[k].content.round # 1

\* C10 (Spec).  If round 1 produced no successful result, the session has ended
\* there: its last event is the warning, no actor was invoked for a later round
\* and no conclusion request was issued.
C10_EmptyFirstRoundEndsSession ==
  (Round1Over /\ Round1Empty)
  => /\ pc = "done"
     /\ round_num = 1
     /\ events[Len(events)] = Ev("warning", "first_round_no_result")
     /\ \A k \in DOMAIN requests : requests[k].kind = "actor" /\ requests[k].round = 1

\* C10, reached: with two rounds allowed and two active actors, both calls of
\* round 1 issued a request and neither gave a result.
C10_Witness ==
  /\ Round1Over
  /\ Round1Empty
  /\ max_rounds >= 2
  /\ Len(ActiveActors(actors)) = 2
  /\ Len(requests) = 2

\* The actor call returned a dict with a non-empty content: a RoundResult.
Succeeded(c) ==
  c.kind = "actor" /\ c.outcome = "returned" /\ c.has /\ ~c.content.empty

\* Round n is over (its end was processed).
RoundOver(n) ==
  \/ round_num > n
  \/ round_num = n /\ pc \in {"loop", "conclusion_call", "done"}

\* Some actor call of round n gave a RoundResult.
RoundHasResult(n) ==
  \E k \in DOMAIN calls : calls[k].round = n /\ Succeeded(calls[k])

\* C11 (SpecRounds).  Once a round n > 1 has ended without any result while an
\* earlier round gave one, no actor is invoked for a round after n, also when
\* n < max_rounds.
C11_EmptyRoundGoesToConclusion ==
  \A n \in 2..MaxLongRounds :
    ( /\ RoundOver(n)
      /\ ~RoundHasResult(n)
      /\ \E m \in 1..(n - 1) : RoundHasResult(m) )
    => \A k \in DOMAIN calls : calls[k].kind = "actor" => calls[k].round <= n

\* s is a proper prefix of t.
IsProperPrefix(s, t) == Len(s) < Len(t) /\ SubSeq(t, 1, Len(s)) = s

\* C12 (SpecRounds).  The transcript is append-only: the transcript passed to an
\* actor of round n + 1 has the transcript passed to an actor of round n as a
\* proper prefix, whatever calls of the rounds succeeded, failed or timed out.
C12_TranscriptAppendOnly ==
  \A j \in DOMAIN calls : \A k \in DOMAIN calls :
    ( /\ calls[j].kind = "actor"
      /\ calls[k].kind = "actor"
      /\ calls[k].round = calls[j].round + 1 )
    => IsProperPrefix(calls[j].transcript, calls[k].transcript)

\* C12, reached: an actor of round 3 was called after a round 2 in which every
\* call was made and none gave a result.
C12_Witness ==
  /\ \E k \in DOMAIN calls : calls[k].kind = "actor" /\ calls[k].round = 3
  /\ \E k \in DOMAIN calls : calls[k].kind = "actor" /\ calls[k].round = 2
  /\ ~RoundHasResult(2)

\* The labelled opinions of a transcript, in order (the separators left out).
RECURSIVE OpinionsOf(_)
OpinionsOf(tr) ==
  IF tr = << >> THEN << >>
  ELSE (IF tr[1].kind = "opinion" THEN << tr[1] >> ELSE << >>) \o OpinionsOf(Tail(tr))

\* The labelled results of the calls cs that succeeded in a round before n, in
\* the order of the calls.
RECURSIVE ResultsBefore(_, _)
ResultsBefore(cs, n) ==
  IF cs = << >> THEN << >>
  ELSE (IF Succeeded(cs[1]) /\ cs[1].round < n
        THEN << Opinion(cs[1].round, cs[1].actor, cs[1].content) >>
        ELSE << >>) \o ResultsBefore(Tail(cs), n)

\* (round, position) of result r comes before that of result q.
Before(r, q) ==
  \/ r.content.round < q.content.round
  \/ r.content.round = q.content.round /\ r.content.idx < q.content.idx

\* C13 (SpecRounds).  The RoundResults collected so far are in the strict order
\* of (round, position of the actor among the active actors); an actor of round 1
\* is given no transcript; and the transcript given to an actor of round n > 1
\* is made of the labelled results of all the calls of rounds 1..n-1 that
\* succeeded, in that order, and of nothing else, so that it holds no result of
\* round n and is the same for every actor of the round.
C13_TranscriptIsEarlierResults ==
  /\ LET rs == all_round_results
               \o (IF pc \in {"actors", "call", "returned", "timed_out"}
                   THEN current_round_results ELSE << >>)
     IN \A j \in DOMAIN rs : \A k \in DOMAIN rs : j < k => Before(rs[j], rs[k])
  /\ \A n \in 1..round_num :
       LET S == {k \in DOMAIN calls : calls[k].kind = "actor" /\ calls[k].round = n}
           earlier == ResultsBefore(calls, n)
       IN \A k \in S :
            /\ n = 1 => calls[k].transcript = << >>
            /\ OpinionsOf(calls[k].transcript) = earlier
            /\ calls[k].transcript = calls[CHOOSE j \in S : TRUE].transcript

\* C13, reached: with two active actors, the second actor of round 3 was called
\* after both succeeded in round 1 and the first one failed in round 2 and
\* succeeded in round 3.
C13_Witness ==
  \E k \in DOMAIN calls :
    /\ calls[k].kind = "actor" /\ calls[k].round = 3 /\ calls[k].idx = 2
    /\ Len(OpinionsOf(calls[k].transcript)) = 3
    /\ Succeeded(calls[k - 1])

\* The actor call was cancelled by its 200 s timeout.
TimedOut(c) == c.kind = "actor" /\ c.outcome = "timed_out"

\* A call of round r, position k, is in the history.
Called(r, k) ==
  \E j \in DOMAIN calls :
    calls[j].kind = "actor" /\ calls[j].round = r /\ calls[j].idx = k

\* The events of es of type t and detail d.
CountEvent(es, t, d) == Cardinality({k \in DOMAIN es : es[k] = Ev(t, d)})

\* What C14 and its amendment share: one 'timeout' error event per timed-out
\* call, no RoundResult of such a call, and the call that follows it is the one
\* that follows it in the order of the session.
TimeoutSkipsActor ==
  /\ CountEvent(events, "error", "timeout")
       = Cardinality({k \in DOMAIN calls : TimedOut(calls[k])})
  /\ \A k \in DOMAIN calls :
       TimedOut(calls[k])
       => /\ \A r \in DOMAIN all_round_results :
               ~ /\ all_round_results[r].content.round = calls[k].round
                 /\ all_round_results[r].content.idx = calls[k].idx
          /\ k < Len(calls)
               => IF calls[k].idx < Len(ActiveActors(actors))
                  THEN /\ calls[k + 1].kind = "actor"
                       /\ calls[k + 1].round = calls[k].round
                       /\ calls[k + 1].idx = calls[k].idx + 1
                  ELSE \/ calls[k + 1].kind = "conclusion"
                       \/ /\ calls[k + 1].kind = "actor"
                          /\ calls[k + 1].round = calls[k].round + 1
                          /\ calls[k + 1].idx = 1
          /\ pc = "done"
               => \A j \in 1..Len(ActiveActors(actors)) : Called(calls[k].round, j)

\* C14 as claimed (Spec).  A timed-out actor call is skipped and is no session
\* failure: one 'timeout' error event, no RoundResult of that call, and every
\* remaining actor of the round and every later stage of the session (the later
\* rounds, the conclusion) still runs.
C14_TimeoutNeverEndsSession ==
  /\ TimeoutSkipsActor
  /\ (pc = "done" /\ \E k \in DOMAIN calls : TimedOut(calls[k]))
       => /\ \A r \in 1..max_rounds : Called(r, 1)
          /\ \E k \in DOMAIN calls : calls[k].kind = "conclusion"

\* C14 as amended (Spec).  A timed-out actor call counts as a call without
\* result: one 'timeout' error event, no RoundResult of that call, every remaining
\* actor of the round still runs, and the session goes on to the later rounds and
\* the conclusion unless round 1 ends without any result, in which case it ends
\* there with the first-round warning.
C14_TimeoutSkipsActor ==
  /\ TimeoutSkipsActor
  /\ (pc = "done" /\ \E k \in DOMAIN calls : TimedOut(calls[k]))
       => \/ /\ Round1Empty
             /\ round_num = 1
             /\ events[Len(events)] = Ev("warning", "first_round_no_result")
          \/ /\ ~Round1Empty
             /\ \A r \in 1..max_rounds : Called(r, 1)
             /\ \E k \in DOMAIN calls : calls[k].kind = "conclusion"

\* C14, reached: the first of two actors timed out in round 1, the second gave a
\* result, round 2 was run and the session ended after the conclusion.
C14_Witness ==
  /\ pc = "done"
  /\ max_rounds = 2
  /\ Len(calls) >= 5
  /\ TimedOut(calls[1])
  /\ Succeeded(calls[2])
  /\ calls[Len(calls)].kind = "conclusion"

\* C15 (Spec).  When the conclusion is cut by its 360 s timeout, the stream ends
\* with the 'conclusion_timeout' error event followed by a 'complete' event, and
\* that 'complete' event is the only one of the session, whatever
\* generate_conclusion had yielded before.
C15_TimeoutThenOnlyComplete ==
  (pc = "done" /\ CountEvent(events, "error", "conclusion_timeout") > 0)
  => /\ Len(events) >= 2
     /\ events[Len(events) - 1] = Ev("error", "conclusion_timeout")
     /\ events[Len(events)].type = "complete"
     /\ CountType(events, "complete") = 1

\* The results rs as (actor, content) pairs.
RECURSIVE Pairs(_)
Pairs(rs) ==
  IF rs = << >> THEN << >>
  ELSE << << rs[1].actor, rs[1].content >> >> \o Pairs(Tail(rs))

\* The (actor, content) pairs of the calls cs that succeeded, in call order.
RECURSIVE SuccessPairs(_)
SuccessPairs(cs) ==
  IF cs = << >> THEN << >>
  ELSE (IF Succeeded(cs[1]) THEN << << cs[1].actor, cs[1].content >> >> ELSE << >>)
         \o SuccessPairs(Tail(cs))

\* C16 (SpecRounds).  generate_conclusion is called at most once, after the last
\* round (every round 1..max_rounds was run before it and no actor call follows
\* it); its input is the list of the results of every actor call of every round
\* that succeeded, in the order of the calls, the failed and timed-out calls
\* leaving nothing; and a finished session has called it exactly if some call
\* succeeded.
C16_PartialResultsSynthesized ==
  /\ \A k \in DOMAIN calls :
       calls[k].kind = "conclusion"
       => /\ k = Len(calls)
          /\ \A j \in 1..(k - 1) : calls[j].kind = "actor"
          /\ \A r \in 1..max_rounds : Called(r, 1)
          /\ RoundOver(max_rounds)
          /\ calls[k].input # << >>
          /\ Pairs(calls[k].input) = SuccessPairs(calls)
  /\ pc = "done"
       => ( (\E k \in DOMAIN calls : calls[k].kind = "conclusion")
            <=> (\E k \in DOMAIN calls : Succeeded(calls[k])) )

\* C16, reached: a session of three rounds with two active actors has ended after
\* the conclusion, with four results in its input, after a call of round 1
\* returned without content and a call of round 2 timed out.
C16_Witness ==
  /\ pc = "done"
  /\ max_rounds = 3
  /\ Len(ActiveActors(actors)) = 2
  /\ calls[Len(calls)].kind = "conclusion"
  /\ Len(calls[Len(calls)].input) = 4
  /\ \E k \in DOMAIN calls : TimedOut(calls[k]) /\ calls[k].round = 2
  /\ \E k \in DOMAIN calls :
       calls[k].round = 1 /\ calls[k].outcome = "returned" /\ ~Succeeded(calls[k])

\* The roster entries that are not tagged with the sentinel, in roster order.
RECURSIVE NonSentinel(_)
NonSentinel(roster) ==
  IF roster = << >> THEN << >>
  ELSE (IF roster[1].actor = "conclusion_model" THEN << >> ELSE << roster[1] >>)
         \o NonSentinel(Tail(roster))

\* C17 (SpecRounds).  process_actor_analysis is never invoked for a roster entry
\* tagged 'conclusion_model'; the calls of analyze_stock go through the rounds in
\* order and, within a round, through the non-sentinel roster entries in roster
\* order, each called with its own tag and model; and a round that is over has
\* called each of them (once, as the order is strict).
C17_SentinelNeverRun ==
  LET act == NonSentinel(actors)
      n == Len(act)
  IN /\ \A k \in DOMAIN calls :
          calls[k].kind = "actor"
          => /\ calls[k].actor # "conclusion_model"
             /\ calls[k].idx \in 1..n
             /\ calls[k].actor = act[calls[k].idx].actor
             /\ calls[k].model = act[calls[k].idx].model
             /\ IF k = 1
                THEN calls[k].round = 1 /\ calls[k].idx = 1
                ELSE /\ calls[k - 1].kind = "actor"
                     /\ IF calls[k - 1].idx < n
                        THEN /\ calls[k].round = calls[k - 1].round
                             /\ calls[k].idx = calls[k - 1].idx + 1
                        ELSE /\ calls[k].round = calls[k - 1].round + 1
                             /\ calls[k].idx = 1
     /\ \A r \in 1..round_num :
          RoundOver(r) => \A j \in 1..n : Called(r, j)

\* C17, reached: with a roster of two other entries between two sentinel
\* entries, round 2 is over after four calls.
C17_Witness ==
  /\ Len(actors) = 4
  /\ actors[1].actor = "conclusion_model"
  /\ RoundOver(2)
  /\ Len(SelectSeq(calls, LAMBDA c : c.kind = "actor")) = 4

\* The model of the first roster entry tagged 'conclusion_model' ("" if none).
SentinelModel(roster) ==
  LET S == {k \in DOMAIN roster : roster[k].actor = "conclusion_model"}
  IN IF S = {} THEN "" ELSE roster[CHOOSE k \in S : \A j \in S : k <= j].model

\* The model the claim gives the conclusion: the first sentinel entry's if it is
\* not empty, otherwise the roster model of the first active actor.
ClaimedConclusionModel(roster) ==
  IF SentinelModel(roster) # "" THEN SentinelModel(roster)
  ELSE IF NonSentinel(roster) # << >> THEN NonSentinel(roster)[1].model
  ELSE ""

\* requests[k] is the first request of the conclusion.
FirstConclusionRequest(k) ==
  /\ requests[k].kind = "conclusion"
  /\ \A j \in 1..(k - 1) : requests[j].kind # "conclusion"

\* C18 as claimed (SpecRounds).  The model of the first conclusion request is the
\* model of the first 'conclusion_model' roster entry if that is not empty, and
\* otherwise the roster model of the first active actor.
C18_ConclusionModelPriority ==
  \A k \in DOMAIN requests :
    FirstConclusionRequest(k) => requests[k].model = ClaimedConclusionModel(actors)

\* C18 as amended (SpecRounds).  The same priority, and the default model when
\* the model it gives is empty; the roster model of the first active actor is
\* taken also when that actor's result came from a fallback model.
C18_ConclusionModelOrDefault ==
  \A k \in DOMAIN requests :
    FirstConclusionRequest(k)
    => requests[k].model =
         IF ClaimedConclusionModel(actors) = "" THEN "deepseek/deepseek-chat:free"
         ELSE ClaimedConclusionModel(actors)

\* C18, reached: the conclusion was requested for a roster without usable
\* sentinel entry, after the first active actor's result came from a fallback
\* model.
C18_Witness ==
  /\ SentinelModel(actors) = ""
  /\ \E k \in DOMAIN requests : FirstConclusionRequest(k)
  /\ \E r \in DOMAIN all_round_results :
       /\ all_round_results[r].content.idx = 1
       /\ all_round_results[r].content.model # NonSentinel(actors)[1].model

\* C19 (Spec).  Every external request of a session, the conclusion's and its
\* retries' included, is issued after a pass of its own through the rate limiter:
\* between two consecutive requests, and before the first, last_request_time
\* was written.
C19_EveryRequestAcquires ==
  \A k \in DOMAIN requests :
    requests[k].acq > (IF k = 1 THEN 0 ELSE requests[k - 1].acq)

\* C20 (SpecSeq).  In N sequential passes through the rate limiter, the N-th
\* grant comes at least (N - 1) * REQUEST_INTERVAL after the first.
C20_SequentialPasses ==
  \A N \in DOMAIN grants : grants[N] - grants[1] >= (N - 1) * REQUEST_INTERVAL

\* C20, reached: three sequential passes, the second one entered while the
\* interval was still running and granted exactly at its end.
C20_Witness ==
  /\ Len(grants) = 3
  /\ grants[2] - grants[1] = REQUEST_INTERVAL
  /\ grants[3] - grants[2] > REQUEST_INTERVAL

\* C21 (SpecCall).  Whenever an actor call or the conclusion falls back, the
\* model it falls back to differs from the model whose retries were just used
\* up, whatever the original model, a member of FALLBACK_MODELS or not: the
\* request that follows a fallback, and the model the next invocation is set up
\* with, are for another model.
C21_FallbackChangesModel ==
  \A k \in DOMAIN requests :
    requests[k].next = "fallback"
    => /\ k < Len(requests) => requests[k + 1].model # requests[k].model
       /\ (k = Len(requests) /\ pc = "call") => actor_data.model # requests[k].model
       /\ (k = Len(requests) /\ pc = "conclusion_call")
            => conclusion_model # requests[k].model

\* C21, reached: a conclusion call that started on the last entry of
\* FALLBACK_MODELS has fallen back to the first entry and from there to the
\* second.
C21_Witness ==
  /\ Len(requests) >= 9
  /\ requests[1].kind = "conclusion"
  /\ requests[1].model = FALLBACK_MODELS[3]
  /\ requests[4].next = "fallback"
  /\ requests[5].model = FALLBACK_MODELS[1]
  /\ requests[8].next = "fallback"
  /\ requests[9].model = FALLBACK_MODELS[2]

(***************************************************************************)
(* Properties of the progress hub.                                         *)
(***************************************************************************)
\* The step is, or starts, the call of progress_callback by spider d.
Began(d) ==
  /\ d \in DOMAIN spiders'
  /\ published' = published + 1
  /\ spiders'[d].pub = published'

\* The step ends the WebSocket send of spider d's publish.
SendEnded(d) ==
  /\ d \in DOMAIN spiders
  /\ spiders[d].sending
  /\ ~spiders'[d].sending

\* In this step send_ws_progress is over for spider d's publish: its send ended,
\* or no socket was registered when it was called.
WsPhase(d) == SendEnded(d) \/ (Began(d) /\ ~spiders'[d].sending)

\* The messages of publish n of spider d, as its state after the step has them.
PublishedItems(d) ==
  WsProgress(spiders'[d].current, spiders'[d].total, spiders'[d].status_str,
             spiders'[d].pub)

IsSuffix(s, t) == Len(s) <= Len(t) /\ SubSeq(t, Len(t) - Len(s) + 1, Len(t)) = s

C23_ConnectedIsRegistered ==
  \A w \in Sockets :
    (sockets[w].pc \in {"waiting", "monitor"} /\ sockets[w].open)
    => /\ sockets[w].task_id \in DOMAIN ws_connections
       /\ ws_connections[sockets[w].task_id] = w

\* The publish numbers of the items of a log, in order (0: not a publish).
PubsOf(log) == [k \in DOMAIN SelectSeq(log, LAMBDA x : x.pub # 0) |->
                  SelectSeq(log, LAMBDA x : x.pub # 0)[k].pub]

Ascending(ns) == \A j, k \in DOMAIN ns : j < k => ns[j] <= ns[k]

\* C24 (SpecShared).  Every subscriber receives the messages published for its
\* task in the order in which progress_callback was called for them: the
\* publish numbers never decrease along what was sent on a WebSocket, nor along
\* what an SSE client was yielded followed by what waits in its queue.
C24_EmissionOrder ==
  /\ \A w \in Sockets : Ascending(PubsOf(ws_received[w]))
  /\ \A c \in Clients : Ascending(PubsOf(sse_yielded[c] \o queues[c]))

\* The SSE client c was registered for the task of spider d while it ran: it
\* listens to that task and its initial message showed the task running.
ListenedTo(c, d) ==
  /\ clients[c].pc = "listen"
  /\ clients[c].task_id = spiders[d].task_id
  /\ (sse_yielded[c] \o queues[c])[1].msg.status = "running"

\* C25 (SpecSse).  Once run() has ended and on_task_done has run, every SSE
\* subscriber registered at that time has been handed (yielded, or put into
\* its queue to be yielded) an event with the terminal status of the task,
\* 'completed' or 'failed'.
C25_TerminalEventBroadcast ==
  \A d \in DOMAIN spiders, c \in Clients :
    (spiders[d].pc = "done" /\ ListenedTo(c, d))
    => \E k \in DOMAIN (sse_yielded[c] \o queues[c]) :
         (sse_yielded[c] \o queues[c])[k].msg.status
           = crawler_tasks[spiders[d].task_id].status

\* The WebSocket send of spider d's publish ends in this step, and it failed.
SendFailed(d) == SendEnded(d) /\ ~Alive(spiders[d].websocket)

\* C26 (SpecHub).  When the send to the WebSocket subscriber fails during a
\* publish, that socket is not registered any more, the messages of the same
\* publish are put into the queue of every SSE subscriber of the task, the
\* registry is left as it is (the status does not become 'failed'), and run()
\* goes on where it would have gone on after a successful publish.
C26_SendFailureStaysLocal ==
  [][\A d \in Spiders :
       SendFailed(d)
       => LET t == spiders[d].task_id
          IN /\ \/ t \notin DOMAIN ws_connections'
                \/ ws_connections'[t] # spiders[d].websocket
             /\ \A c \in SseSubscribers(t) :
                  queues'[c] = queues[c] \o PublishedItems(d)
             /\ crawler_tasks' = crawler_tasks
             /\ spiders'[d].pc = spiders[d].after
             /\ spiders'[d].pc \in {"stocks", "final", "returned"}]_vars

\* C26, reached: the send of the first report to socket 1 has failed, the socket
\* is unregistered though its handler has not noticed yet, SSE client 1 holds
\* the messages of that publish, the task is running and run() is at its stock.
C26_Witness ==
  /\ sockets[1].pc = "monitor"
  /\ ~sockets[1].open
  /\ 0 \notin DOMAIN ws_connections
  /\ clients[1].pc = "listen"
  /\ \E k \in DOMAIN queues[1] : queues[1][k].pub = 1
  /\ published = 1
  /\ spiders[1].websocket = 1
  /\ spiders[1].pc = "stocks"
  /\ crawler_tasks[0].status = "running"

\* The handler of socket w, or the generator of client c, ends in this step.
WsLeaves(w) == sockets[w].pc # "closed" /\ sockets'[w].pc = "closed"
SseLeaves(c) == clients[c].pc = "listen" /\ clients'[c].pc = "gone"

Real(log) == SelectSeq(log, LAMBDA x : x.msg # Heartbeat)

\* What client c was handed or will be handed: the events yielded to it and
\* those waiting in its queue.
Stream(c) == Real(sse_yielded[c]) \o queues[c]

IsPrefix(s, t) == Len(s) <= Len(t) /\ SubSeq(t, 1, Len(s)) = s

\* Client c is yielded a heartbeat in this step.
Beats(c) ==
  /\ Len(sse_yielded'[c]) = Len(sse_yielded[c]) + 1
  /\ sse_yielded'[c][Len(sse_yielded'[c])].msg = Heartbeat

\* C28 (SpecSse).  No queue ever holds a heartbeat.  A heartbeat is yielded to a
\* client only by its own read loop, when its queue is empty, and the step
\* changes no queue and no other client's output.  While a client listens, the
\* events put into its queue are yielded in the order they were put, none is
\* dropped or replaced: what it was yielded and what waits in its queue only
\* grows at its end, and an event is yielded only from the head of the queue.
C28_HeartbeatsKeepEvents ==
  [][\A c \in Clients :
       /\ \A k \in DOMAIN queues'[c] : queues'[c][k].msg # Heartbeat
       /\ Beats(c) => /\ clients[c].pc = "listen"
                      /\ queues[c] = << >>
                      /\ queues' = queues
                      /\ \A b \in Clients \ {c} : sse_yielded'[b] = sse_yielded[b]
       /\ clients[c].pc = "listen" => IsPrefix(Stream(c), Stream(c)')
       /\ (clients[c].pc = "listen" /\ ~Beats(c))
          => Real(sse_yielded'[c]) \in
               {Real(sse_yielded[c]),
                IF queues[c] = << >> THEN Real(sse_yielded[c])
                ELSE Append(Real(sse_yielded[c]), Head(queues[c]))}]_vars

\* C28, reached: client 1 was yielded the initial message, then a heartbeat
\* while its queue was empty, then the events of the first publish; client 2
\* listens and was never yielded a heartbeat.
C28_Witness ==
  /\ clients[1].pc = "listen"
  /\ clients[2].pc = "listen"
  /\ Len(sse_yielded[1]) >= 3
  /\ sse_yielded[1][1].pub = 0
  /\ sse_yielded[1][2].msg = Heartbeat
  /\ sse_yielded[1][3].pub = 1
  /\ Heartbeats(sse_yielded[2]) = 0
  /\ queues[1] = << >>

\* C29 (SpecStatus).  No call of get_crawler_status changes the registry; a
\* call for an unknown task id is answered with not-found and a call for a known
\* one with its snapshot; two calls for the same task with no write of the
\* registry between them are answered with identical snapshots.
C29_StatusQueryIsPure ==
  /\ \A k \in DOMAIN replies :
       /\ replies[k].unchanged
       /\ ~replies[k].known => replies[k].reply = NotFound
       /\ replies[k].known => replies[k].reply.code = 200
  /\ \A j, k \in DOMAIN replies :
       (replies[j].task_id = replies[k].task_id /\ replies[j].writes = replies[k].writes)
       => replies[j].reply = replies[k].reply
  /\ \A k \in DOMAIN replies : replies[k].task_id \in DOMAIN crawler_tasks <=> replies[k].known

\* C29, reached: the status of the running task was queried twice after its
\* first report, with no write between the calls, and an unknown id was queried.
C29_Witness ==
  /\ Len(replies) = 3
  /\ replies[1].task_id = 0
  /\ replies[2].task_id = 0
  /\ replies[1].writes = 2
  /\ replies[2].writes = 2
  /\ replies[1].reply.total = 1
  /\ replies[1].reply = replies[2].reply
  /\ replies[3].task_id = UnknownTask
  /\ replies[3].reply = NotFound
  /\ UnknownTask \notin DOMAIN crawler_tasks

\* The entry of task t is written in this step by the run, or the completion
\* handler, of a task started under that id.
OwnStep(t) ==
  /\ Len(spiders') = Len(spiders)
  /\ \E d \in DOMAIN spiders : spiders[d].task_id = t /\ spiders'[d] # spiders[d]
  /\ \A d, e \in DOMAIN spiders : (d # e /\ spiders[d].task_id = t) => spiders[e].task_id # t

\* C30 (SpecTasks).  An entry of the registry is created with status 'running'
\* and current = 0; its status is always running, completed or failed; an
\* existing entry is changed only by a step of the one task started under its
\* id; and once it is completed or failed, it is never running again and its
\* counters do not go back.
C30_TaskStateLifecycle ==
  [][\A t \in DOMAIN crawler_tasks' :
       /\ crawler_tasks'[t].status \in {"running", "completed", "failed"}
       /\ t \notin DOMAIN crawler_tasks
          => crawler_tasks'[t].status = "running" /\ crawler_tasks'[t].current = 0
       /\ (t \in DOMAIN crawler_tasks /\ crawler_tasks'[t] # crawler_tasks[t])
          => OwnStep(t)
       /\ (t \in DOMAIN crawler_tasks /\ crawler_tasks[t].status \in {"completed", "failed"})
          => /\ crawler_tasks'[t].status # "running"
             /\ crawler_tasks'[t].current >= crawler_tasks[t].current
             /\ crawler_tasks'[t].total >= crawler_tasks[t].total]_vars

\* C31 (Spec).  When process_actor_analysis returns a dict without the result
\* (only "messages"), its messages hold at least one event of type 'error' or
\* 'warning'.
C31_FailureEmitsEvent ==
  (pc = "returned" /\ ~result.has)
  => \E k \in DOMAIN result.messages : result.messages[k].type \in {"error", "warning"}

\* The answer is a failure that is not an authentication failure: the body
\* cannot be decoded, or it is an error object that passes none of the
\* authentication tests.
OtherFailure(resp) ==
  \/ resp.kind = "parse"
  \/ resp.kind = "error" /\ Classify(resp) # "auth"

\* C32 (Spec).  An attempt of an actor call that fails otherwise than by an
\* authentication failure does not end the call at once: it is followed by a
\* retry or a fallback, unless the retries of the model and the fallback models
\* are used up.
C32_OnlyAuthEndsAtOnce ==
  \A k \in DOMAIN requests :
    (/\ requests[k].kind = "actor"
     /\ OtherFailure(requests[k].resp)
     /\ requests[k].next = "return")
    => ActorProviderStep(requests[k].model, requests[k].retry_count,
                         requests[k].fallback_model_index).next = "exhausted"

\* The messages the invocations of the requests rs appended to their lists, in
\* the order produced.
RECURSIVE ProducedBy(_)
ProducedBy(rs) == IF rs = << >> THEN << >> ELSE rs[1].messages \o ProducedBy(Tail(rs))

\* The requests of the actor call that is running or has just returned.
RequestsOfCall ==
  SelectSeq(requests, LAMBDA r : r.kind = "actor" /\ r.round = round_num /\ r.idx = i)

\* C33 (SpecCall).  The 'retry' and 'fallback' events that the invocations of an
\* actor call produced are, in the order produced, the 'retry' and 'fallback'
\* events of the messages that process_actor_analysis returns.
C33_RetryEventsReturned ==
  pc = "returned"
  => TypesIn(result.messages, {"retry", "fallback"})
       = TypesIn(ProducedBy(RequestsOfCall), {"retry", "fallback"})

\* C34 (Spec).  Every 'analysis' event delivered to the caller is preceded, in
\* this order, by the 'progress' event of its actor, the info events
\* 'prompt_ready', 'api_request_start' and 'api_request_complete'.
C34_ActorEventOrder ==
  \A k \in DOMAIN events :
    events[k].type = "analysis"
    => \E a, b, c, d \in 1..(k - 1) :
         /\ a < b /\ b < c /\ c < d
         /\ events[a] = Ev("progress", events[k].detail)
         /\ events[b] = Ev("info", "prompt_ready")
         /\ events[c] = Ev("info", "api_request_start")
         /\ events[d] = Ev("info", "api_request_complete")

\* A round ends in this step.
RoundEnds == pc = "actors" /\ pc' \in {"loop", "done"}

\* The 'round_transition' events of a stream.
Transitions(es) == CountEvent(es, "info", "round_transition")

\* The labelled results of round rnd.
RoundOpinions(rnd, rs) == [k \in DOMAIN rs |-> Opinion(rnd, rs[k].actor, rs[k].content)]

\* C35 (SpecRounds).  When a round n < max_rounds ends and the session goes on,
\* the labelled results of the round are appended to the transcript, in order,
\* and one 'round_transition' event is emitted, as the last event before round
\* n + 1 starts; so there is one such event per round started after the first.
\* When the final round ends, and in every other step, none is emitted.
C35_OneTransitionPerRound ==
  [][/\ (RoundEnds /\ pc' = "loop" /\ round_num < max_rounds)
        => /\ Transitions(events') = Transitions(events) + 1
           /\ events'[Len(events')] = Ev("info", "round_transition")
           /\ OpinionsOf(conversation_history')
                = OpinionsOf(conversation_history)
                    \o RoundOpinions(round_num, current_round_results)
           /\ conversation_history = << >>
                \/ IsProperPrefix(conversation_history, conversation_history')
     /\ ~(RoundEnds /\ pc' = "loop" /\ round_num < max_rounds)
        => Transitions(events') = Transitions(events)
     /\ (pc = "loop" /\ pc' = "actors")
        => /\ Transitions(events) = round_num
           /\ round_num >= 1 => events[Len(events)] = Ev("info", "round_transition")]_vars

\* C35, reached: a session of three rounds has ended; round 2 gave a result
\* that is in the transcript, and the stream holds two 'round_transition'
\* events, none of them after the start of round 3.
C35_Witness ==
  /\ pc = "done"
  /\ max_rounds = 3
  /\ round_num = 3
  /\ Transitions(events) = 2
  /\ \E k \in DOMAIN conversation_history :
       conversation_history[k].kind = "opinion" /\ conversation_history[k].round = 2
  /\ \E k \in DOMAIN events :
       /\ events[k] = Ev("info", "round_start")
       /\ CountEvent(SubSeq(events, 1, k), "info", "round_start") = 3
       /\ Transitions(SubSeq(events, 1, k)) = 2

\* The calls of process_actor_analysis made for the active actor at index a.
ActorCallsOf(a) == {k \in DOMAIN calls : calls[k].kind = "actor" /\ calls[k].idx = a}

\* C36 (SpecRounds).  The session runs the rounds 1..max_rounds and no more:
\* the round counter never exceeds max_rounds, every call of an actor belongs to
\* a round in 1..max_rounds and to one of the active actors, an actor is called
\* at most once per round and so at most max_rounds times; and in a session of
\* one round no actor is given any transcript, no 'round_transition' event is
\* emitted, and when the session is over every active actor has been called
\* exactly once.
C36_RoundsBounded ==
  /\ round_num \in 0..max_rounds
  /\ \A k \in DOMAIN calls :
       calls[k].kind = "actor"
       => /\ calls[k].round \in 1..max_rounds
          /\ calls[k].idx \in 1..Len(ActiveActors(actors))
          /\ \A j \in DOMAIN calls :
               (/\ calls[j].kind = "actor" /\ calls[j].round = calls[k].round
                /\ calls[j].idx = calls[k].idx) => j = k
  /\ \A a \in 1..Len(ActiveActors(actors)) : Cardinality(ActorCallsOf(a)) <= max_rounds
  /\ max_rounds = 1
     => /\ \A k \in DOMAIN calls : calls[k].kind = "actor" => calls[k].transcript = << >>
        /\ Transitions(events) = 0
        /\ pc = "done"
           => \A a \in 1..Len(ActiveActors(actors)) : Cardinality(ActorCallsOf(a)) = 1

\* A finished session of one round with two active actors, each called once,
\* the first of which produced a result.
C36_Witness ==
  /\ pc = "done"
  /\ max_rounds = 1
  /\ Len(ActiveActors(actors)) = 2
  /\ Cardinality(ActorCallsOf(1)) = 1
  /\ Cardinality(ActorCallsOf(2)) = 1
  /\ \E k \in ActorCallsOf(1) : calls[k].has

\* A finished session of three rounds in which an actor was called three times.
C36_WitnessRounds ==
  /\ pc = "done"
  /\ max_rounds = 3
  /\ Cardinality(ActorCallsOf(1)) = 3

\* The largest number of external requests of one logical call that walks
\* forward through its models: every model with all its retries.
MaxRequestsOfCall == (1 + MAX_RETRIES) * (1 + Len(FALLBACK_MODELS))

\* C37 (SpecCall).  Within one logical call the fallback position only moves
\* forward: the fallback index of a later request is never below that of an
\* earlier one, the request that retries a failed request carries the same
\* fallback index, and the call makes at most
\* (1 + MAX_RETRIES) * (1 + len(FALLBACK_MODELS)) requests.
C37_FallbackMovesForward ==
  /\ \A j \in DOMAIN requests : \A k \in DOMAIN requests :
       j < k => requests[j].fallback_model_index <= requests[k].fallback_model_index
  /\ \A k \in DOMAIN requests :
       (k < Len(requests) /\ requests[k].next = "retry")
       => requests[k + 1].fallback_model_index = requests[k].fallback_model_index
  /\ Len(requests) <= MaxRequestsOfCall

\* C38 (SpecTasks).  Two start requests never share a task id: the tasks started
\* have pairwise different ids, and a start never replaces the entry of a task
\* that is still running.
C38_TaskIdsUnique ==
  [][/\ \A d, e \in DOMAIN spiders' : d # e => spiders'[d].task_id # spiders'[e].task_id
     /\ Len(spiders') > Len(spiders)
        => \A t \in DOMAIN crawler_tasks :
             (crawler_tasks[t].status = "running" /\ \E d \in DOMAIN spiders : spiders[d].task_id = t)
             => spiders'[Len(spiders')].task_id # t]_vars

\* The queues added for task t and not yet removed, by what the callers did.
AddedNotRemoved(t) == {c \in Clients : clients[c].pc = "listen" /\ clients[c].task_id = t}

\* Every key of sse_connections maps to a non-empty list without repetitions
\* that holds exactly the queues added and not yet removed for that task, and
\* every such queue is in the list of its task.
RegistryExact ==
  /\ \A t \in DOMAIN sse_connections :
       /\ sse_connections[t] # << >>
       /\ \A j, k \in DOMAIN sse_connections[t] :
            sse_connections[t][j] = sse_connections[t][k] => j = k
       /\ {sse_connections[t][k] : k \in DOMAIN sse_connections[t]} = AddedNotRemoved(t)
  /\ \A t \in RegistryTasks : AddedNotRemoved(t) # {} => t \in DOMAIN sse_connections

\* C39 (SpecRegistry).  After any sequence of add_sse_client and
\* remove_sse_client calls every task id present in sse_connections maps to a
\* non-empty list of exactly the queues added and not yet removed for it; a
\* remove_sse_client call that names a queue not registered for the task
\* changes nothing; and the call that removes the last queue of a task deletes
\* the task's key.
C39_SseRegistry ==
  [][/\ RegistryExact'
     /\ strays' # strays => sse_connections' = sse_connections
     /\ \A t \in DOMAIN sse_connections :
          (/\ Len(sse_connections[t]) = 1
           /\ clients[sse_connections[t][1]].pc = "listen"
           /\ clients'[sse_connections[t][1]].pc = "gone")
          => t \notin DOMAIN sse_connections']_vars

\* Two queues were added for one task and the first was removed: the list of
\* the task holds the second alone; and remove_sse_client was called for
\* queues not registered.
C39_Witness ==
  /\ clients[1] = [pc |-> "gone", task_id |-> 0]
  /\ clients[2] = [pc |-> "listen", task_id |-> 0]
  /\ sse_connections = Put(<< >>, 0, << 2 >>)
  /\ strays = MaxStrays

\* C40 (SpecHub).  The progress published for the task satisfies
\* 0 <= current <= total, the percentage is 0 when total = 0 and otherwise
\* floor(100 * current / total) within 0..100, and current never exceeds the
\* number of stocks whose processing succeeded.
C40_ProgressWithinDone ==
  \A d \in DOMAIN spiders :
    LET t == spiders[d].task_id
        e == crawler_tasks[t]
    IN t \in DOMAIN crawler_tasks
       => /\ 0 <= e.current /\ e.current <= e.total
          /\ e.progress = (IF e.total = 0 THEN 0 ELSE (100 * e.current) \div e.total)
          /\ e.progress \in 0..100
          /\ e.current <= spiders[d].processed_stocks
====
